---- MODULE Spec2Model ----
(***************************************************************************)
(* LightHouse backend: the incident resolution and deduplication pipeline.  *)
(*                                                                         *)
(* Five subsystems are modelled, each with its own specification:           *)
(*   SpecExtract  - unified_pipeline.py: TokenRotationManager and           *)
(*                  LLMExtractor (credential rotation, batch loop).         *)
(*   Spec         - regenerate_incidents.py + process_incidents.py +        *)
(*                  mongodb_handler.py: gate, tweet_to_incident, merge,     *)
(*                  local artifact, remote upsert, over successive runs.    *)
(*   SpecResolve  - processing_bundle/process_incidents.py: the location    *)
(*                  tiers of tweet_to_incident, the gazetteer file          *)
(*                  location_db.json and the geocoder.                      *)
(*   SpecMerge    - processing_bundle/process_incidents.py: the clustering  *)
(*                  of merge_similar_incidents.                             *)
(*   SpecBatch    - hf_pipeline.py: the thread pool of                      *)
(*                  IntegratedDisasterPipeline.process_batch.               *)
(*   SpecThresholds - processing_bundle/run_thresholds.py: the clustering   *)
(*                  run once per threshold on the same input.               *)
(* The variables of the subsystem a specification does not drive keep       *)
(* their initial values.                                                    *)
(***************************************************************************)
EXTENDS Integers, Sequences, FiniteSets, Bags, TLC

(***************************************************************************)
(* Bounds of the model                                                      *)
(***************************************************************************)
\* number of configured HuggingFace credentials (len(config.HF_TOKENS))
NumTokens == 2
\* number of tweets handed to process_all_tweets_in_batches
MaxTweets == 4
\* BATCH_SIZE of process_all_tweets_in_batches, scaled down from the
\* source's 20 so that a run of MaxTweets tweets spans several batches
BatchSize == 2
\* largest value of config.MAX_LLM_CALLS drawn (0 = unlimited)
MaxCallsLimit == 1
\* largest number of tweets in the input file of one pipeline run
MaxInput == 2
\* largest number of pipeline runs against the same store
MaxRuns == 2
\* largest number of incidents handed to merge_similar_incidents
MaxMerge == 3
\* number of tweets in the input file of process_batch
MaxBatch == 3
\* largest max_workers of process_batch
MaxWorkers == 3
\* largest number of incidents in the input of run_thresholds.py
MaxSeries == 5

VARIABLES
    \* ---- unified_pipeline.py ----
    tweets,             \* input of process_all_tweets_in_batches: tweets[k] = ml_classification.is_disaster of tweet k
    SKIP_LLM,           \* config.SKIP_LLM
    MAX_LLM_CALLS,      \* config.MAX_LLM_CALLS
    token_manager,      \* LLMExtractor.token_manager (TokenRotationManager)
    llm,                \* index of the credential the ChatOpenAI client self.llm is bound to
    llm_calls_made,     \* LLMExtractor.llm_calls_made
    llm_calls_skipped,  \* LLMExtractor.llm_calls_skipped
    all_processed,      \* all_processed of process_all_tweets_in_batches
    batch_start,        \* loop variable of the batch loop
    i,                  \* number of tweets of the current batch already processed
    attempt,            \* loop variable of the retry loop of _extract_with_llm
    xpc,                \* control point of the extractor
    invocations,        \* number of self.llm.invoke calls issued so far
    last_call,          \* the most recent self.llm.invoke: credential used and outcome
    \* ---- regenerate_incidents.py, process_incidents.py, mongodb_handler.py ----
    store,              \* the MongoDB collection lighthouse.incidents: a bag of documents
    rpc,                \* control point of process_pipeline_results
    input,              \* the lines of the input JSONL, in file order
    save_to_mongodb,    \* parameter of process_pipeline_results
    replace_mongodb,    \* parameter of process_pipeline_results
    result,             \* the result dictionary of process_pipeline_results
    local_file,         \* content of incidents.json
    attempt_no,         \* loop variable of MongoDBHandler.connect
    connected,          \* MongoDBHandler.connected
    cursor,             \* number of incidents insert_incidents has gone through
    stats,              \* stats of insert_incidents
    history,            \* what earlier runs did, for the claims that relate two runs
    waited,             \* the seconds connect slept before each retry, in order
    update_calls,       \* number of collection.update_one calls insert_incidents issued
    \* ---- processing_bundle/process_incidents.py: location resolution ----
    gfile,              \* location_db.json on disk
    gpc,                \* control point of tweet_to_incident
    gtweet,             \* the tweet tweet_to_incident was called with
    gdb,                \* location_db of tweet_to_incident, as loaded and then extended
    gout,               \* the resolution of the current or last call
    learned,            \* the aliases learned from the geocoder in calls that returned
    gsave,              \* the file content before and after the save in progress
    \* ---- processing_bundle/process_incidents.py: merge_similar_incidents ----
    incidents_in,       \* parameter incidents
    threshold_km,       \* parameter threshold_km, in decimetres
    clusters,           \* clusters
    mcursor,            \* number of incidents the placement loop has gone through
    merged,             \* merged, the returned list
    mpc,                \* control point of merge_similar_incidents
    placed_in,          \* index of the cluster the last incident was put in
    outputs,            \* outputs of run_thresholds.py, with the file each run wrote
    \* ---- hf_pipeline.py: IntegratedDisasterPipeline.process_batch ----
    b_tweets,           \* tweets loaded from the input file: the id of each, in file order
    max_workers,        \* parameter max_workers
    futures,            \* futures, in submission order: state and result of each
    taken,              \* number of work items the pool's threads have taken from its queue
    threads,            \* the pool's threads: the work item each is running, or 0
    results,            \* results
    out_file,           \* the output JSONL file
    bpc,                \* control point of process_batch
    finish_order        \* the work items in the order their futures completed

xvars == <<tweets, SKIP_LLM, MAX_LLM_CALLS, token_manager, llm, llm_calls_made,
           llm_calls_skipped, all_processed, batch_start, i, attempt, xpc,
           invocations, last_call>>

rvars == <<store, rpc, input, save_to_mongodb, replace_mongodb, result, local_file,
           attempt_no, connected, cursor, stats, history, waited, update_calls>>

gvars == <<gfile, gpc, gtweet, gdb, gout, learned, gsave>>

mvars == <<incidents_in, threshold_km, clusters, mcursor, merged, mpc, placed_in, outputs>>

bvars == <<b_tweets, max_workers, futures, taken, threads, results, out_file, bpc,
           finish_order>>

vars == <<xvars, rvars, gvars, mvars, bvars>>

TokenIdx == 0 .. (NumTokens - 1)

Min(a, b) == IF a <= b THEN a ELSE b

(***************************************************************************)
(* TokenRotationManager                                                     *)
(***************************************************************************)
NoToken == -1

TokenRotationManager_init ==
    [ current_token_idx |-> 0,
      exhausted         |-> [t \in TokenIdx |-> FALSE],
      calls             |-> [t \in TokenIdx |-> 0],
      total_rotations   |-> 0 ]

\* the while loop of get_current_token: skip exhausted tokens, at most
\* len(tokens) steps; yields the manager (its index moved) and the token
RECURSIVE get_current_token_scan(_, _)
get_current_token_scan(tm, attempts) ==
    IF attempts >= NumTokens
    THEN [tm |-> tm, token |-> NoToken]
    ELSE IF ~tm.exhausted[tm.current_token_idx]
         THEN [tm |-> tm, token |-> tm.current_token_idx]
         ELSE get_current_token_scan(
                [tm EXCEPT !.current_token_idx = (tm.current_token_idx + 1) % NumTokens],
                attempts + 1)

get_current_token(tm) == get_current_token_scan(tm, 0)

\* mutant of mark_token_exhausted: the index is moved before the flag is set
mark_token_after_moving(tm) ==
    [tm EXCEPT !.exhausted[(tm.current_token_idx + 1) % NumTokens] = TRUE,
               !.current_token_idx = (tm.current_token_idx + 1) % NumTokens,
               !.total_rotations = tm.total_rotations + 1]

mark_token_exhausted(tm) ==
    [tm EXCEPT !.exhausted[tm.current_token_idx] = TRUE,
               !.current_token_idx = (tm.current_token_idx + 1) % NumTokens,
               !.total_rotations = tm.total_rotations + 1]

record_successful_call(tm) ==
    [tm EXCEPT !.calls[tm.current_token_idx] = tm.calls[tm.current_token_idx] + 1]

\* mutant of all_tokens_exhausted: the check never reports exhaustion
all_tokens_exhausted_never(tm) == FALSE

all_tokens_exhausted(tm) == \A t \in TokenIdx : tm.exhausted[t]

(***************************************************************************)
(* LLMExtractor                                                             *)
(***************************************************************************)
\* Exceptions self.llm.invoke can raise: the condition that caused it and, of
\* the text str(e), the three facts line 585 tests. The text of a quota error
\* (HTTP 402) carries its status code; the text of any other error is free.
Exceptions ==
    { e \in [ cause : {"quota", "timeout", "connection"},
              msg   : [has_402 : BOOLEAN, has_exceeded : BOOLEAN, has_credits : BOOLEAN] ] :
        e.cause = "quota" => e.msg.has_402 }

\* the test of line 585 on error_msg
is_credit_limit_error(msg) ==
    msg.has_402 \/ msg.has_exceeded \/ msg.has_credits

\* mutant of rotate_to_next_token: the token is marked and the index moved,
\* but the client is never re-initialised with the new token
rotate_keeps_client(tm, client, init_ok) ==
    LET tm1 == mark_token_exhausted(tm) IN
    IF \A t \in TokenIdx : tm1.exhausted[t]
    THEN [tm |-> tm1, llm |-> client, ok |-> FALSE]
    ELSE [tm |-> get_current_token(tm1).tm, llm |-> client, ok |-> init_ok]

\* _rotate_to_next_token; init_ok: whether constructing the new ChatOpenAI
\* client succeeds. Yields the manager, the client binding and the return value.
rotate_to_next_token(tm, client, init_ok) ==
    LET tm1 == mark_token_exhausted(tm) IN
    IF all_tokens_exhausted(tm1)
    THEN [tm |-> tm1, llm |-> client, ok |-> FALSE]
    ELSE LET g == get_current_token(tm1) IN
         IF g.token = NoToken
         THEN [tm |-> g.tm, llm |-> client, ok |-> FALSE]
         ELSE IF init_ok
              THEN [tm |-> g.tm, llm |-> g.token, ok |-> TRUE]
              ELSE [tm |-> g.tm, llm |-> client, ok |-> FALSE]

\* _parse_json: the parsed object, or None for a reply that is not JSON
parse_json(parseable) == IF parseable THEN "data" ELSE "None"

\* ids of the tweets the ML model classified as disasters, in input order
disaster_tweets ==
    SelectSeq([k \in 1 .. Len(tweets) |-> k], LAMBDA k : tweets[k])

total_disasters == Len(disaster_tweets)

batch_end == Min(batch_start + BatchSize, total_disasters)

\* the tweet process_tweet is working on
current_tweet == disaster_tweets[batch_start + i + 1]

Result(id, ext, err) == [id |-> id, llm_extraction |-> ext, llm_error |-> err]

NoCall == [token |-> NoToken, outcome |-> "none", attempt |-> 0, reinit |-> "none",
           tried |-> << >>]

\* the credentials the invocations of the current call of _extract_with_llm
\* were issued with, the one being issued included
tried_now == IF attempt = 0 THEN <<llm>> ELSE Append(last_call.tried, llm)

ExhaustedError == "All HuggingFace tokens exhausted"

\* process_pipeline_results has produced no result yet
NoResult ==
    [ exists |-> FALSE, total_tweets |-> 0, filtered_tweets |-> 0, incidents_created |-> 0,
      skipped_no_coords |-> 0, incidents |-> << >>, mongodb |-> "absent" ]

\* stats of insert_incidents, lines 167-172, before the call is made
NoStats == [called |-> FALSE, inserted |-> 0, updated |-> 0, failed |-> 0, bulk_error |-> FALSE]

NoHistory ==
    [ runs |-> 0, rerun |-> FALSE, prev_incidents |-> << >>, prev_stored_all |-> FALSE,
      prev_insert |-> [called |-> FALSE, incidents |-> << >>, clean |-> FALSE],
      store0 |-> EmptyBag, replace_used |-> FALSE, remote_started |-> FALSE ]

\* location_db.json does not exist
NoFile == [exists |-> FALSE, complete |-> FALSE, db |-> << >>]

\* no string
NoText ==
    [ raw |-> "", paren |-> << >>, dir |-> << >>, compact |-> << >>,
      pair |-> << >>, names |-> {} ]

\* tweet_to_incident has resolved nothing yet
NoResolution ==
    [ status |-> "none", lat |-> 0, lng |-> 0, original |-> FALSE, resolved_source |-> "None",
      resolved_confidence |-> 0, resolved_place_id |-> 0, geocoded |-> FALSE,
      known |-> FALSE ]

\* the location tiers at rest
GIdle ==
    /\ gfile = NoFile
    /\ gpc = "off"
    /\ gtweet = [text |-> NoText, location |-> NoText]
    /\ gdb = << >>
    /\ gout = NoResolution
    /\ learned = {}
    /\ gsave = [active |-> FALSE, prev |-> << >>, new |-> << >>]

\* merge_similar_incidents at rest
MIdle ==
    /\ incidents_in = << >>
    /\ threshold_km = 0
    /\ clusters = << >>
    /\ mcursor = 0
    /\ merged = << >>
    /\ mpc = "off"
    /\ placed_in = 0
    /\ outputs = << >>

\* process_batch at rest
BIdle ==
    /\ b_tweets = << >>
    /\ max_workers = 0
    /\ futures = << >>
    /\ taken = 0
    /\ threads = << >>
    /\ results = << >>
    /\ out_file = [exists |-> FALSE, lines |-> << >>]
    /\ bpc = "off"
    /\ finish_order = << >>

\* the incident pipeline at rest, under the extractor's specification
RIdle ==
    /\ store = EmptyBag
    /\ rpc = "off"
    /\ input = << >>
    /\ save_to_mongodb = FALSE
    /\ replace_mongodb = FALSE
    /\ result = NoResult
    /\ local_file = NoResult
    /\ attempt_no = 0
    /\ connected = FALSE
    /\ cursor = 0
    /\ stats = NoStats
    /\ history = NoHistory
    /\ waited = << >>
    /\ update_calls = 0

XInit ==
    /\ RIdle
    /\ GIdle
    /\ MIdle
    /\ BIdle
    /\ tweets \in [1 .. MaxTweets -> BOOLEAN]
    /\ SKIP_LLM \in BOOLEAN
    /\ MAX_LLM_CALLS \in 0 .. MaxCallsLimit
    /\ token_manager = TokenRotationManager_init
    /\ llm = 0
    /\ llm_calls_made = 0
    /\ llm_calls_skipped = 0
    /\ all_processed = << >>
    /\ batch_start = 0
    /\ i = 0
    /\ attempt = 0
    /\ xpc = "start"
    /\ invocations = 0
    /\ last_call = NoCall

\* process_all_tweets_in_batches, lines 654-661
SkipLLM ==
    /\ xpc = "start"
    /\ SKIP_LLM
    /\ all_processed' = [k \in 1 .. total_disasters |->
                            Result(disaster_tweets[k], "None", "LLM extraction skipped (SKIP_LLM=true)")]
    /\ xpc' = "done"
    /\ UNCHANGED <<bvars, gvars, mvars, rvars, tweets, SKIP_LLM, MAX_LLM_CALLS, token_manager, llm, llm_calls_made,
                   llm_calls_skipped, batch_start, i, attempt, invocations, last_call>>

\* lines 664-677
StartBatches ==
    /\ xpc = "start"
    /\ ~SKIP_LLM
    /\ batch_start' = 0
    /\ xpc' = "batch"
    /\ UNCHANGED <<bvars, gvars, mvars, rvars, tweets, SKIP_LLM, MAX_LLM_CALLS, token_manager, llm, llm_calls_made,
                   llm_calls_skipped, all_processed, i, attempt, invocations, last_call>>

\* head of the batch loop, lines 680-699
BatchHead ==
    /\ xpc = "batch"
    /\ IF batch_start >= total_disasters
       THEN /\ xpc' = "done"
            /\ UNCHANGED <<all_processed, i>>
       ELSE IF all_tokens_exhausted(token_manager)
            THEN /\ all_processed' = all_processed \o
                        [k \in 1 .. (total_disasters - batch_start) |->
                            Result(disaster_tweets[batch_start + k], "None", ExhaustedError)]
                 /\ xpc' = "done"
                 /\ UNCHANGED i
            ELSE /\ i' = 0
                 /\ xpc' = "tweet"
                 /\ UNCHANGED all_processed
    /\ UNCHANGED <<bvars, gvars, mvars, rvars, tweets, SKIP_LLM, MAX_LLM_CALLS, token_manager, llm, llm_calls_made,
                   llm_calls_skipped, batch_start, attempt, invocations, last_call>>

\* end of the inner loop over the batch, lines 713-718, and the step of the
\* batch loop
BatchEnd ==
    /\ xpc = "tweet"
    /\ batch_start + i >= batch_end
    /\ batch_start' = batch_start + BatchSize
    /\ xpc' = "batch"
    /\ UNCHANGED <<bvars, gvars, mvars, rvars, tweets, SKIP_LLM, MAX_LLM_CALLS, token_manager, llm, llm_calls_made,
                   llm_calls_skipped, all_processed, i, attempt, invocations, last_call>>

\* process_tweet returns and the inner loop goes on, lines 703-711: the result
\* is appended; with every token exhausted (tm is the manager after the call)
\* the inner loop breaks and the batch loop takes its next step
FinishTweet(ext, err, tm) ==
    /\ all_processed' = Append(all_processed, Result(current_tweet, ext, err))
    /\ IF all_tokens_exhausted(tm)
       THEN /\ batch_start' = batch_start + BatchSize
            /\ xpc' = "batch"
            /\ UNCHANGED i
       ELSE /\ i' = i + 1
            /\ xpc' = "tweet"
            /\ UNCHANGED batch_start

\* entry of _extract_with_llm, lines 515-531 and 571
ExtractEnter ==
    /\ xpc = "tweet"
    /\ batch_start + i < batch_end
    /\ IF all_tokens_exhausted(token_manager)
       THEN /\ llm_calls_skipped' = llm_calls_skipped + 1
            /\ FinishTweet("None", ExhaustedError, token_manager)
            /\ UNCHANGED attempt
       ELSE IF MAX_LLM_CALLS > 0 /\ llm_calls_made >= MAX_LLM_CALLS
            THEN /\ llm_calls_skipped' = llm_calls_skipped + 1
                 /\ FinishTweet("None", "Reached maximum LLM calls limit", token_manager)
                 /\ UNCHANGED attempt
            ELSE /\ attempt' = 0
                 /\ xpc' = "invoke"
                 /\ UNCHANGED <<llm_calls_skipped, all_processed, batch_start, i>>
    /\ UNCHANGED <<bvars, gvars, mvars, rvars, tweets, SKIP_LLM, MAX_LLM_CALLS, token_manager, llm, llm_calls_made,
                   invocations, last_call>>

\* self.llm.invoke returns a reply, lines 575-579
InvokeReturns ==
    /\ xpc = "invoke"
    /\ \E parseable \in BOOLEAN :
         /\ last_call' = [token |-> llm, attempt |-> attempt, reinit |-> "none",
                          tried |-> tried_now,
                          outcome |-> IF parseable THEN "reply" ELSE "malformed"]
         /\ token_manager' = record_successful_call(token_manager)
         /\ FinishTweet(parse_json(parseable), "None", token_manager')
    /\ invocations' = invocations + 1
    /\ llm_calls_made' = llm_calls_made + 1
    /\ UNCHANGED <<bvars, gvars, mvars, rvars, tweets, SKIP_LLM, MAX_LLM_CALLS, llm, llm_calls_skipped, attempt>>

\* self.llm.invoke raises, lines 581-607. init_ok is drawn only where
\* _rotate_to_next_token reaches the construction of the new client.
InvokeRaises ==
    /\ xpc = "invoke"
    /\ \E e \in Exceptions, init_ok \in BOOLEAN :
         /\ last_call' = [token |-> llm, attempt |-> attempt, outcome |-> e.cause,
                          tried |-> tried_now,
                          reinit |-> IF is_credit_limit_error(e.msg)
                                        /\ ~all_tokens_exhausted(mark_token_exhausted(token_manager))
                                     THEN IF init_ok THEN "ok" ELSE "failed"
                                     ELSE "none"]
         /\ IF is_credit_limit_error(e.msg)
            THEN LET r == rotate_to_next_token(token_manager, llm, init_ok) IN
                 /\ token_manager' = r.tm
                 /\ llm' = r.llm
                 /\ IF r.ok
                    THEN IF attempt + 1 < NumTokens
                         THEN /\ attempt' = attempt + 1
                              /\ UNCHANGED <<xpc, all_processed, batch_start, i, llm_calls_skipped>>
                         ELSE /\ FinishTweet("None", "LLM extraction failed after all token retries", r.tm)
                              /\ UNCHANGED <<attempt, llm_calls_skipped>>
                    ELSE /\ llm_calls_skipped' = llm_calls_skipped + 1
                         /\ FinishTweet("None", ExhaustedError, r.tm)
                         /\ UNCHANGED attempt
            ELSE /\ FinishTweet("None", "LLM extraction failed", token_manager)
                 /\ UNCHANGED <<token_manager, llm, attempt, llm_calls_skipped>>
    /\ invocations' = invocations + 1
    /\ UNCHANGED <<bvars, gvars, mvars, rvars, tweets, SKIP_LLM, MAX_LLM_CALLS, llm_calls_made>>

XNext ==
    \/ SkipLLM
    \/ StartBatches
    \/ BatchHead
    \/ BatchEnd
    \/ ExtractEnter
    \/ InvokeReturns
    \/ InvokeRaises

SpecExtract == XInit /\ [][XNext]_vars

(***************************************************************************)
(* process_incidents.py (the module regenerate_incidents.py imports)        *)
(***************************************************************************)
\* llm_extraction = None (the key is null or absent)
NoExtraction ==
    [ present |-> FALSE, llm_classification |-> FALSE, location |-> "",
      disaster_type |-> "", severity |-> "" ]

\* an llm_extraction object; "null" stands for a JSON null value
Extraction(cls, loc, dtype, sev) ==
    [ present |-> TRUE, llm_classification |-> cls, location |-> loc,
      disaster_type |-> dtype, severity |-> sev ]

Tweet(id, ml, ext) == [id |-> id, is_disaster |-> ml, llm_extraction |-> ext]

\* The lines an input JSONL is drawn from: tweets that pass the gate (1-3, 1
\* and 2 at the same place with the same type), tweets one of the two
\* classifiers rejected (4-6), a tweet whose location has no coordinates (7),
\* and gate-passing tweets the LLM answered with a null field (8, 9).
Reports ==
    { Tweet(1, TRUE,  Extraction(TRUE,  "JAPAN", "earthquake", "medium")),
      Tweet(2, TRUE,  Extraction(TRUE,  "JAPAN", "earthquake", "critical")),
      Tweet(3, TRUE,  Extraction(TRUE,  "Tokyo, Japan (35.6762, 139.6503)", "flood", "low")),
      Tweet(4, FALSE, Extraction(TRUE,  "JAPAN", "earthquake", "medium")),
      Tweet(5, TRUE,  NoExtraction),
      Tweet(6, TRUE,  Extraction(FALSE, "JAPAN", "earthquake", "medium")),
      Tweet(7, TRUE,  Extraction(TRUE,  "Atlantis", "earthquake", "medium")),
      Tweet(8, TRUE,  Extraction(TRUE,  "JAPAN", "null", "medium")),
      Tweet(9, TRUE,  Extraction(TRUE,  "JAPAN", "earthquake", "null")) }

\* a line of the input file that json.loads rejects
BadLine == [id |-> 0, is_disaster |-> FALSE, llm_extraction |-> NoExtraction]

\* the input files: lines in file order, each line at most once
Inputs ==
    { inp \in UNION { [1 .. n -> Reports \cup {BadLine}] : n \in 0 .. MaxInput } :
        \A a, b \in 1 .. Len(inp) : inp[a].id = inp[b].id => a = b }

\* load_jsonl: json.loads raises on a line it cannot parse, and nothing
\* between it and the caller of process_pipeline_results catches that
load_jsonl(lines) ==
    [ raised |-> \E k \in 1 .. Len(lines) : lines[k] = BadLine,
      tweets |-> lines ]

NoCoords == << >>

\* extract_coordinates_from_location on the location strings of Reports: the
\* parenthesised pair, else the first key of location_db contained in the
\* upper-cased string, else None. Degrees times 10000.
extract_coordinates_from_location(location) ==
    CASE location = "Tokyo, Japan (35.6762, 139.6503)" -> <<356762, 1396503>>
      [] location = "JAPAN"                            -> <<362048, 1382529>>
      [] OTHER                                         -> NoCoords

\* location.split('(')[0].strip() if '(' in location else location
location_display(location) ==
    IF location = "Tokyo, Japan (35.6762, 139.6503)" THEN "Tokyo, Japan" ELSE location

\* whether severity_map raises: None has no attribute lower
severity_map_raises(llm_severity) == llm_severity = "null"

\* whether disaster_type_normalize raises: None has no attribute lower
disaster_type_normalize_raises(disaster_type) == disaster_type = "null"

disaster_type_normalize(disaster_type) ==
    CASE disaster_type = "earthquake" -> "Earthquake"
      [] disaster_type = "flood"      -> "Flood"
      [] disaster_type = "hurricane"  -> "Hurricane"
      [] disaster_type = "wildfire"   -> "Wildfire"
      [] OTHER                        -> "Storm"

\* md5 of "{location}-{tweet_id}", cut to 12 hex digits: a name for the pair
generate_incident_id(tweet_id, location) == <<location, tweet_id>>

NoIncident ==
    [ id |-> <<"", 0>>, location |-> "", lat |-> 0, lng |-> 0, severity |-> "",
      incident_type |-> "", source_tweets |-> << >> ]

\* tweet_to_incident: an incident, None (no coordinates), or an exception
tweet_to_incident(tweet) ==
    LET ext      == tweet.llm_extraction
        location == IF ext.location = "" THEN "Location TBD" ELSE ext.location
        coords   == extract_coordinates_from_location(location)
    IN  IF coords = NoCoords
        THEN [status |-> "None", incident |-> NoIncident]
        ELSE IF disaster_type_normalize_raises(ext.disaster_type)
                \/ severity_map_raises(ext.severity)
             THEN [status |-> "raise", incident |-> NoIncident]
             ELSE [status |-> "incident",
                   incident |->
                     [ id            |-> generate_incident_id(tweet.id, location),
                       location      |-> location_display(location),
                       lat           |-> coords[1],
                       lng           |-> coords[2],
                       severity      |-> ext.severity,
                       incident_type |-> disaster_type_normalize(ext.disaster_type),
                       source_tweets |-> <<tweet.id>> ]]

\* the group key of merge_similar_incidents
group_key(incident) == <<incident.location, incident.incident_type>>

\* the keys of the groups dictionary, in insertion order
RECURSIVE group_keys(_)
group_keys(incidents) ==
    IF incidents = << >>
    THEN << >>
    ELSE LET k == group_key(incidents[1]) IN
         <<k>> \o group_keys(SelectSeq(Tail(incidents), LAMBDA x : group_key(x) # k))

RECURSIVE all_source_tweets(_)
all_source_tweets(group) ==
    IF group = << >> THEN << >>
    ELSE group[1].source_tweets \o all_source_tweets(Tail(group))

merged_severity(group) ==
    IF \E k \in 1 .. Len(group) : group[k].severity \in {"critical", "high"}
    THEN "high"
    ELSE IF \E k \in 1 .. Len(group) : group[k].severity = "medium"
         THEN "medium"
         ELSE "low"

\* mutant of merge_group: the first incident of the group is returned as it is
merge_group_keeps_first(group) == group[1]

\* lines 246-269: a group of one is returned as it is, a larger one as a
\* copy of its first incident with all source tweets and the highest severity
merge_group(group) ==
    IF Len(group) = 1
    THEN group[1]
    ELSE [group[1] EXCEPT !.source_tweets = all_source_tweets(group),
                          !.severity = merged_severity(group)]

\* merge_similar_incidents: one incident per (location, incident_type)
merge_similar_incidents(incidents) ==
    LET keys == group_keys(incidents) IN
    [ g \in 1 .. Len(keys) |->
        merge_group(SelectSeq(incidents, LAMBDA x : group_key(x) = keys[g])) ]

(***************************************************************************)
(* regenerate_incidents.py: process_pipeline_results, local part            *)
(***************************************************************************)
\* mutant of gate: one classifier suffices
gate_either(tweet) ==
    tweet.is_disaster
    \/ (tweet.llm_extraction.present /\ tweet.llm_extraction.llm_classification)

\* lines 94-101: both classifiers must call the tweet a disaster
gate(tweet) ==
    LET ml_is_disaster  == tweet.is_disaster
        llm_is_disaster == IF tweet.llm_extraction.present
                           THEN tweet.llm_extraction.llm_classification
                           ELSE FALSE
    IN  ml_is_disaster /\ llm_is_disaster

\* the filter of process_final_results (processing_bundle), lines 831-837
process_final_results_filter(tweet) ==
    /\ tweet.is_disaster
    /\ tweet.llm_extraction.present
    /\ tweet.llm_extraction.llm_classification

\* the list comprehension of process_final_results, lines 831-837
process_final_results_filtered(tweets_in) == SelectSeq(tweets_in, process_final_results_filter)

\* the conversion loop, lines 107-114: the incidents and the number of
\* tweets skipped; an exception of tweet_to_incident ends the loop
RECURSIVE convert(_, _, _)
convert(filtered, incidents, skipped) ==
    IF filtered = << >>
    THEN [raised |-> FALSE, incidents |-> incidents, skipped |-> skipped]
    ELSE LET r == tweet_to_incident(filtered[1]) IN
         CASE r.status = "raise"    -> [raised |-> TRUE, incidents |-> incidents, skipped |-> skipped]
           [] r.status = "incident" -> convert(Tail(filtered), Append(incidents, r.incident), skipped)
           [] OTHER                 -> convert(Tail(filtered), incidents, skipped + 1)

\* lines 91-142: filter, convert, merge and build the result dictionary
build_result(tweets_in) ==
    LET filtered_tweets == SelectSeq(tweets_in, gate)
        c               == convert(filtered_tweets, << >>, 0)
        merged_incidents          == merge_similar_incidents(c.incidents)
    IN  [ raised |-> c.raised,
          result |-> [ exists            |-> TRUE,
                       total_tweets      |-> Len(tweets_in),
                       filtered_tweets   |-> Len(filtered_tweets),
                       incidents_created |-> Len(merged_incidents),
                       skipped_no_coords |-> c.skipped,
                       incidents         |-> merged_incidents,
                       mongodb           |-> "absent" ] ]

(***************************************************************************)
(* mongodb_handler.py: MongoDBHandler                                       *)
(***************************************************************************)
\* connect(retry_count=3): the number of connection attempts
retry_count == 3

\* the documents of the collection that match {'id': incident_id}
matching(st, incident_id) == { doc \in BagToSet(st) : doc.id = incident_id }

\* mutant of update_one: a plain insert
insert_one(st, incident) ==
    [store |-> st (+) SetToBag({incident}), upserted |-> TRUE, modified_count |-> 0]

\* collection.update_one({'id': id}, {'$set': incident}, upsert=True): the
\* first matching document takes the incident's fields, and a new document is
\* inserted when none matches
update_one(st, incident) ==
    LET found == matching(st, incident.id) IN
    IF found = {}
    THEN [store |-> st (+) SetToBag({incident}), upserted |-> TRUE, modified_count |-> 0]
    ELSE LET doc == CHOOSE x \in found : TRUE IN
         [ store          |-> (st (-) SetToBag({doc})) (+) SetToBag({incident}),
           upserted       |-> FALSE,
           modified_count |-> IF doc = incident THEN 0 ELSE 1 ]

\* mutant of delete_requested: the collection is always emptied first
delete_always(replace_all) == TRUE

\* line 176: delete_many({}) runs only when replace_all is set
delete_requested(replace_all) == replace_all

(***************************************************************************)
(* regenerate_incidents.py: process_pipeline_results, one step per call     *)
(* that leaves the process                                                  *)
(***************************************************************************)
\* mutant of handle_mongo_exception: the exception is raised again
reraise_mongo_exception(res) == [rpc |-> "raised", result |-> NoResult]

\* lines 196-200: any exception of the MongoDB block is recorded in the result
handle_mongo_exception(res) ==
    [rpc |-> "return", result |-> [res EXCEPT !.mongodb = "not saved"]]

\* the call of insert_incidents this run made, for the next run to look back at
insert_record ==
    IF stats.called
    THEN [ called    |-> TRUE,
           incidents |-> result.incidents,
           clean     |-> stats.failed = 0 /\ ~stats.bulk_error ]
    ELSE history.prev_insert

\* main() calls process_pipeline_results on an input file (lines 254-260)
BeginRun ==
    /\ rpc \in {"idle", "return", "raised"}
    /\ history.runs < MaxRuns
    /\ \E inp \in Inputs, save \in BOOLEAN, replace \in BOOLEAN :
        /\ input' = inp
        /\ save_to_mongodb' = save
        /\ replace_mongodb' = replace
        /\ LET again == rpc = "return" /\ inp = input IN
           history' = [ runs            |-> history.runs + 1,
                        rerun           |-> again,
                        prev_incidents  |-> IF again THEN result.incidents ELSE << >>,
                        prev_stored_all |-> again /\ stats.called /\ stats.failed = 0
                                            /\ ~stats.bulk_error,
                        prev_insert     |-> insert_record,
                        store0          |-> store,
                        replace_used    |-> history.replace_used,
                        remote_started  |-> FALSE ]
    /\ rpc' = "process"
    /\ result' = NoResult
    /\ stats' = NoStats
    /\ attempt_no' = 0
    /\ connected' = FALSE
    /\ cursor' = 0
    /\ waited' = << >>
    /\ update_calls' = 0
    /\ UNCHANGED <<bvars, gvars, mvars, xvars, store, local_file>>

\* lines 86-151: load, filter, convert, merge, write incidents.json
Process ==
    /\ rpc = "process"
    /\ LET loaded == load_jsonl(input)
           r      == build_result(loaded.tweets)
       IN
       IF loaded.raised \/ r.raised
       THEN /\ rpc' = "raised"
            /\ UNCHANGED <<result, local_file, history>>
       ELSE /\ result' = r.result
            /\ local_file' = r.result
            /\ IF save_to_mongodb /\ r.result.incidents # << >>
               THEN /\ rpc' = "connect"
                    /\ history' = [history EXCEPT !.remote_started = TRUE]
               ELSE /\ rpc' = "return"
                    /\ UNCHANGED history
    /\ UNCHANGED <<bvars, gvars, mvars, xvars, store, input, save_to_mongodb, replace_mongodb, attempt_no,
                   connected, cursor, stats, waited, update_calls>>

\* connect, lines 89-92: MDB_URI is not set
ConnectNoUri ==
    /\ rpc = "connect"
    /\ attempt_no = 0
    /\ result' = [result EXCEPT !.mongodb = "not saved"]
    /\ rpc' = "return"
    /\ UNCHANGED <<bvars, gvars, mvars, xvars, store, input, save_to_mongodb, replace_mongodb, local_file,
                   attempt_no, connected, cursor, stats, history, waited, update_calls>>

\* mutant of wait_time: the wait grows by a constant
wait_time_linear(attempt_k) == 2 * attempt_k

\* line 99: wait_time = 2 ** attempt
wait_time(attempt_k) == 2 ^ attempt_k

\* connect, lines 96-151: one attempt of the retry loop, with the sleep
\* that precedes every attempt but the first
ConnectAttempt ==
    /\ rpc = "connect"
    /\ attempt_no < retry_count
    /\ attempt_no' = attempt_no + 1
    /\ waited' = IF attempt_no' > 1 THEN Append(waited, wait_time(attempt_no')) ELSE waited
    /\ \E ok \in BOOLEAN :
        IF ok
        THEN /\ connected' = TRUE
             /\ rpc' = "insert"
             /\ UNCHANGED result
        ELSE /\ UNCHANGED connected
             /\ IF attempt_no' = retry_count
                THEN /\ result' = [result EXCEPT !.mongodb = "not saved"]
                     /\ rpc' = "return"
                ELSE UNCHANGED <<result, rpc>>
    /\ UNCHANGED <<bvars, gvars, mvars, xvars, store, input, save_to_mongodb, replace_mongodb, local_file,
                   cursor, stats, history, update_calls>>

\* insert_incidents, lines 159-178: on a handler that is not connected it
\* returns zero counts at once; else fresh stats, delete_many on replace_all
InsertBegin ==
    /\ rpc = "insert"
    /\ IF ~connected
       THEN /\ stats' = [NoStats EXCEPT !.called = TRUE]
            /\ rpc' = "inserted"
            /\ UNCHANGED <<store, history>>
       ELSE IF delete_requested(replace_mongodb)
       THEN \E ok \in BOOLEAN :
              IF ok
              THEN /\ store' = EmptyBag
                   /\ history' = [history EXCEPT !.replace_used = TRUE]
                   /\ stats' = [NoStats EXCEPT !.called = TRUE]
                   /\ rpc' = "upsert"
              ELSE /\ stats' = [NoStats EXCEPT !.called = TRUE, !.bulk_error = TRUE]
                   /\ rpc' = "inserted"
                   /\ UNCHANGED <<store, history>>
       ELSE /\ stats' = [NoStats EXCEPT !.called = TRUE]
            /\ rpc' = "upsert"
            /\ UNCHANGED <<store, history>>
    /\ cursor' = 1
    /\ update_calls' = 0
    /\ UNCHANGED <<bvars, gvars, mvars, xvars, input, save_to_mongodb, replace_mongodb, result, local_file,
                   attempt_no, connected, waited>>

\* insert_incidents, lines 181-205: the upsert of one incident
UpsertOne ==
    /\ rpc = "upsert"
    /\ cursor <= Len(result.incidents)
    /\ \E ok \in BOOLEAN :
        IF ok
        THEN LET r == update_one(store, result.incidents[cursor]) IN
             /\ store' = r.store
             /\ stats' = IF r.upserted
                         THEN [stats EXCEPT !.inserted = @ + 1]
                         ELSE IF r.modified_count > 0
                              THEN [stats EXCEPT !.updated = @ + 1]
                              ELSE stats
        ELSE /\ stats' = [stats EXCEPT !.failed = @ + 1]
             /\ UNCHANGED store
    /\ cursor' = cursor + 1
    /\ update_calls' = update_calls + 1
    /\ rpc' = IF cursor' > Len(result.incidents) THEN "inserted" ELSE "upsert"
    /\ UNCHANGED <<bvars, gvars, mvars, xvars, input, save_to_mongodb, replace_mongodb, result, local_file,
                   attempt_no, connected, history, waited>>

\* lines 166-191: print the stats, get_statistics, record saved, close
Finish ==
    /\ rpc = "inserted"
    /\ result' = [result EXCEPT !.mongodb = "saved"]
    /\ connected' = FALSE
    /\ rpc' = "return"
    /\ UNCHANGED <<bvars, gvars, mvars, xvars, store, input, save_to_mongodb, replace_mongodb, local_file,
                   attempt_no, cursor, stats, history, waited, update_calls>>

\* lines 156-200: a statement of the try block raises; connect and
\* insert_incidents catch their own exceptions, so it is one around them
RemoteException ==
    /\ rpc \in {"connect", "inserted"}
    /\ LET h == handle_mongo_exception(result) IN
       /\ rpc' = h.rpc
       /\ result' = h.result
    /\ UNCHANGED <<bvars, gvars, mvars, xvars, store, input, save_to_mongodb, replace_mongodb, local_file,
                   attempt_no, connected, cursor, stats, history, waited, update_calls>>

\* the extractor is not running
XIdle ==
    /\ tweets = [k \in 1 .. MaxTweets |-> FALSE]
    /\ SKIP_LLM = FALSE
    /\ MAX_LLM_CALLS = 0
    /\ token_manager = TokenRotationManager_init
    /\ llm = 0
    /\ llm_calls_made = 0
    /\ llm_calls_skipped = 0
    /\ all_processed = << >>
    /\ batch_start = 0
    /\ i = 0
    /\ attempt = 0
    /\ xpc = "off"
    /\ invocations = 0
    /\ last_call = NoCall

Init ==
    /\ XIdle
    /\ GIdle
    /\ MIdle
    /\ BIdle
    /\ store = EmptyBag
    /\ rpc = "idle"
    /\ input = << >>
    /\ save_to_mongodb = FALSE
    /\ replace_mongodb = FALSE
    /\ result = NoResult
    /\ local_file = NoResult
    /\ attempt_no = 0
    /\ connected = FALSE
    /\ cursor = 0
    /\ stats = NoStats
    /\ history = NoHistory
    /\ waited = << >>
    /\ update_calls = 0

Next ==
    \/ BeginRun
    \/ Process
    \/ ConnectNoUri
    \/ ConnectAttempt
    \/ InsertBegin
    \/ UpsertOne
    \/ Finish
    \/ RemoteException

Spec == Init /\ [][Next]_vars

(***************************************************************************)
(* processing_bundle/process_incidents.py: location resolution              *)
(***************************************************************************)
\* A string as extract_coordinates_from_location sees it: the groups of the
\* first match of the parenthesised pattern, of the pattern with direction
\* letters, of the compact direction pattern and of the bare pair pattern
\* (<< >> where the pattern does not match), and the keys of the built-in
\* location_db that occur in the upper-cased string. Degrees times 10000.
Str(raw, paren, dir, pair, names) ==
    [ raw |-> raw, paren |-> paren, dir |-> dir, compact |-> dir,
      pair |-> pair, names |-> names ]

\* tweet['text'] of the tweets resolved
Texts ==
    { NoText,
      Str("Flooding downtown, roads closed", << >>, << >>, << >>, {}),
      Str("Strong quake felt across Japan", << >>, << >>, << >>, {"JAPAN"}),
      Str("M5.1 quake 54.51N 160.13W", << >>, <<545100, "N", 1601300, "W">>, << >>, {}),
      Str("buoy 99.5N 160.13W offline", << >>, <<995000, "N", 1601300, "W">>, << >>, {}),
      Str("epicenter (123.4, 500.0)", <<1234000, 5000000>>, << >>, <<1234000, 5000000>>, {}),
      Str("quake at 1.8499, 126.9943", << >>, << >>, <<18499, 1269943>>, {}),
      Str("gauge 95.5, 200.25 rising", << >>, << >>, <<955000, 2002500>>, {}) }

\* llm_extraction['location'] of the tweets resolved
Hints ==
    { Str("Tokyo, Japan (35.6762, 139.6503)", <<356762, 1396503>>, << >>,
          <<356762, 1396503>>, {"JAPAN"}),
      Str("Tokyo", << >>, << >>, << >>, {}),
      Str(" tokyo ", << >>, << >>, << >>, {}),
      Str("Japan Trench", << >>, << >>, << >>, {"JAPAN"}),
      Str("Atlantis", << >>, << >>, << >>, {}),
      Str("NYC", << >>, << >>, << >>, {}),
      Str("New York City", << >>, << >>, << >>, {}) }

\* str.upper on the strings compared by name
upper(raw) ==
    CASE raw \in {"Tokyo", "tokyo"}  -> "TOKYO"
      [] raw = " tokyo "             -> " TOKYO "
      [] raw = "New York City"       -> "NEW YORK CITY"
      [] raw = "Tokyo, Japan"        -> "TOKYO, JAPAN"
      [] raw = "Japan Trench"        -> "JAPAN TRENCH"
      [] raw = "Atlantis"            -> "ATLANTIS"
      [] OTHER                       -> raw

\* str.strip
strip(raw) == IF raw = " tokyo " THEN "tokyo" ELSE raw

\* the dictionary literal of lines 551-581, in its order (three of its keys)
builtin_location_db ==
    << [key |-> "GREECE", coords |-> <<390742, 218243>>],
       [key |-> "DODECANESE ISLANDS, GREECE", coords |-> <<364341, 272005>>],
       [key |-> "JAPAN", coords |-> <<362048, 1382529>>] >>

\* -90 <= lat <= 90 and -180 <= lng <= 180
in_range(coords) ==
    /\ -900000 <= coords[1] /\ coords[1] <= 900000
    /\ -1800000 <= coords[2] /\ coords[2] <= 1800000

\* lines 508-515: S negates the latitude, W the longitude
directed(d) ==
    << IF d[2] = "S" THEN -d[1] ELSE d[1], IF d[4] = "W" THEN -d[3] ELSE d[3] >>

\* lines 584-589: the first key of the built-in db contained in the string
builtin_lookup(location) ==
    LET hits == { k \in 1 .. Len(builtin_location_db) :
                    builtin_location_db[k].key \in location.names }
    IN  IF hits = {} THEN NoCoords
        ELSE builtin_location_db[CHOOSE k \in hits : \A j \in hits : k <= j].coords

\* extract_coordinates_from_location of the bundle, lines 489-589
pb_extract_coordinates_from_location(location) ==
    IF location.paren # << >>
    THEN location.paren
    ELSE IF location.dir # << >> /\ in_range(directed(location.dir))
    THEN directed(location.dir)
    ELSE IF location.compact # << >> /\ in_range(directed(location.compact))
    THEN directed(location.compact)
    ELSE IF location.pair # << >> /\ in_range(location.pair)
    THEN location.pair
    ELSE builtin_lookup(location)

\* mutant of load_location_db: a file that does not parse raises
load_location_db_unguarded(file) ==
    IF ~file.exists THEN [raised |-> FALSE, db |-> << >>]
    ELSE IF file.complete THEN [raised |-> FALSE, db |-> file.db]
    ELSE [raised |-> TRUE, db |-> << >>]

\* load_location_db: {} when the file is missing or json.load raises
load_location_db(file) ==
    IF ~file.exists THEN [raised |-> FALSE, db |-> << >>]
    ELSE IF file.complete THEN [raised |-> FALSE, db |-> file.db]
    ELSE [raised |-> FALSE, db |-> << >>]

\* what Nominatim knows: place_id, address and position of a query
NoPlace == [place_id |-> 0, address |-> "", lat |-> 0, lng |-> 0]

nominatim(text) ==
    CASE text \in {"Tokyo", " tokyo "} ->
            [place_id |-> 1, address |-> "Tokyo, Japan", lat |-> 356762, lng |-> 1396503]
      [] text \in {"NYC", "New York City"} ->
            [place_id |-> 2, address |-> "City of New York, New York, United States",
             lat |-> 407128, lng |-> -740060]
      [] OTHER -> NoPlace

\* mutant of geocode_entry: the entry is known by the geocoder's address only
geocode_entry_by_address(text, loc) ==
    [ id |-> loc.place_id, canonical_name |-> loc.address, name_variants |-> <<loc.address>>,
      centroid |-> <<loc.lat, loc.lng>>, confidence |-> 8 ]

\* the entry try_geocode builds, lines 618-629; confidence times 10
geocode_entry(text, loc) ==
    [ id |-> loc.place_id, canonical_name |-> loc.address, name_variants |-> <<text>>,
      centroid |-> <<loc.lat, loc.lng>>, confidence |-> 8 ]

\* line 721: the name test of the gazetteer lookup
name_matches(loc_key, entry) ==
    \/ upper(loc_key) = upper(entry.canonical_name)
    \/ \E v \in 1 .. Len(entry.name_variants) : upper(loc_key) = upper(entry.name_variants[v])

\* lines 719-731: index of the first entry of location_db that matches, or 0
first_match(db, loc_key) ==
    LET hits == { k \in 1 .. Len(db) : name_matches(loc_key, db[k]) }
    IN  IF hits = {} THEN 0 ELSE CHOOSE k \in hits : \A j \in hits : k <= j

\* location_db[new_id] = g_entry: a dictionary keeps the position of a key it has
put_entry(db, entry) ==
    IF \E k \in 1 .. Len(db) : db[k].id = entry.id
    THEN [k \in 1 .. Len(db) |-> IF db[k].id = entry.id THEN entry ELSE db[k]]
    ELSE Append(db, entry)

\* lines 684-686
location_of(hint) == IF strip(hint.raw) = "" THEN [hint EXCEPT !.raw = "Location TBD"] ELSE hint

\* lines 691-703: coordinates in the text, else in the location string
original_coords(text, location) ==
    LET coords == IF text.raw # "" THEN pb_extract_coordinates_from_location(text)
                  ELSE NoCoords
    IN  IF coords # NoCoords THEN coords
        ELSE pb_extract_coordinates_from_location(location)

\* lines 705-731: the resolution the first two tiers give on location_db db,
\* status "geocode" when both leave final_lat None
resolve_local(text, location, db) ==
    LET original == original_coords(text, location)
        m        == first_match(db, strip(location.raw))
    IN  IF original # NoCoords
        THEN [NoResolution EXCEPT !.status = "incident", !.lat = original[1],
                                  !.lng = original[2], !.original = TRUE,
                                  !.resolved_source = "tweet_text_coords",
                                  !.resolved_confidence = 10]
        ELSE IF m # 0
        THEN [NoResolution EXCEPT !.status = "incident", !.lat = db[m].centroid[1],
                                  !.lng = db[m].centroid[2],
                                  !.resolved_source = "location_db",
                                  !.resolved_confidence = db[m].confidence,
                                  !.resolved_place_id = db[m].id]
        ELSE [NoResolution EXCEPT !.status = "geocode"]

\* tweet_to_incident up to the call of try_geocode, lines 681-735
ResolveCall ==
    /\ gpc \in {"idle", "returned", "crashed"}
    /\ \E text \in Texts, hint \in Hints :
        LET location == location_of(hint)
            loaded   == load_location_db(gfile)
            r        == resolve_local(text, location, loaded.db)
        IN  /\ gtweet' = [text |-> text, location |-> location]
            /\ IF loaded.raised
               THEN /\ gpc' = "raised"
                    /\ gdb' = << >>
                    /\ gout' = NoResolution
               ELSE /\ gdb' = loaded.db
                    /\ gout' = [r EXCEPT !.known = location.raw \in learned]
                    /\ gpc' = IF r.status = "geocode" THEN "geocode" ELSE "returned"
    /\ gsave' = [active |-> FALSE, prev |-> << >>, new |-> << >>]
    /\ UNCHANGED <<bvars, xvars, rvars, mvars, gfile, learned>>

\* try_geocode returns, lines 607-632 and 736-749 up to the save
Geocode ==
    /\ gpc = "geocode"
    /\ \E outcome \in {"found", "empty", "error", "no_library"} :
        LET loc == nominatim(gtweet.location.raw) IN
        /\ outcome = "found" => loc # NoPlace
        /\ IF outcome = "found"
           THEN LET g_entry == geocode_entry(gtweet.location.raw, loc) IN
                /\ gdb' = put_entry(gdb, g_entry)
                /\ gout' = [gout EXCEPT !.status = "incident", !.lat = loc.lat,
                                        !.lng = loc.lng, !.resolved_source = "geocoder",
                                        !.resolved_confidence = 8,
                                        !.resolved_place_id = loc.place_id,
                                        !.geocoded = TRUE]
                /\ gsave' = [active |-> TRUE, prev |-> load_location_db(gfile).db,
                             new |-> put_entry(gdb, g_entry)]
                /\ gpc' = "save"
           ELSE /\ gout' = [gout EXCEPT !.status = "None", !.geocoded = TRUE]
                /\ gpc' = "returned"
                /\ UNCHANGED <<gdb, gsave>>
    /\ UNCHANGED <<bvars, xvars, rvars, mvars, gfile, gtweet, learned>>

\* save_location_db, line 604: open(p, 'w') truncates the file
SaveOpen ==
    /\ gpc = "save"
    /\ \E ok \in BOOLEAN :
        IF ok
        THEN /\ gfile' = [exists |-> TRUE, complete |-> FALSE, db |-> << >>]
             /\ gpc' = "dump"
             /\ UNCHANGED learned
        ELSE /\ gpc' = "returned"
             /\ learned' = learned \cup {gtweet.location.raw}
             /\ UNCHANGED gfile
    /\ UNCHANGED <<bvars, xvars, rvars, mvars, gtweet, gdb, gout, gsave>>

\* save_location_db, line 604: json.dump writes the dictionary, or fails
\* part-way; lines 741-749: the exception is passed over and the call returns
SaveDump ==
    /\ gpc = "dump"
    /\ \E ok \in BOOLEAN :
        IF ok
        THEN gfile' = [exists |-> TRUE, complete |-> TRUE, db |-> gdb]
        ELSE UNCHANGED gfile
    /\ gpc' = "returned"
    /\ learned' = learned \cup {gtweet.location.raw}
    /\ UNCHANGED <<bvars, xvars, rvars, mvars, gtweet, gdb, gout, gsave>>

\* the process is killed while tweet_to_incident waits for the geocoder or
\* writes the file
Crash ==
    /\ gpc \in {"geocode", "save", "dump"}
    /\ gpc' = "crashed"
    /\ UNCHANGED <<bvars, xvars, rvars, mvars, gfile, gtweet, gdb, gout, learned, gsave>>

GInit ==
    /\ XIdle
    /\ RIdle
    /\ MIdle
    /\ BIdle
    /\ gfile = NoFile
    /\ gpc = "idle"
    /\ gtweet = [text |-> NoText, location |-> NoText]
    /\ gdb = << >>
    /\ gout = NoResolution
    /\ learned = {}
    /\ gsave = [active |-> FALSE, prev |-> << >>, new |-> << >>]

GNext ==
    \/ ResolveCall
    \/ Geocode
    \/ SaveOpen
    \/ SaveDump
    \/ Crash

SpecResolve == GInit /\ [][GNext]_vars

(***************************************************************************)
(* processing_bundle/process_incidents.py: merge_similar_incidents          *)
(***************************************************************************)
\* The incidents merged lie on one meridian (lng 138.000), at latitudes
\* 36.000, 36.360 and 36.600: 40.0 km, 26.7 km and 66.7 km apart. Degrees
\* times 1000; the latitudes are multiples of 60 so that the mean of up to
\* five of them is a whole number.
Kinds ==
    [ incident_type : {"Earthquake", "Flood"},
      lat           : {36000, 36360, 36600},
      lng           : {138000},
      severity      : {"low", "medium", "high", "critical"},
      created_at    : {1} ]

\* incidents of one type and severity that differ in place and in created_at
StampedKinds ==
    [ incident_type : {"Earthquake"},
      lat           : {36000, 36360},
      lng           : {138000},
      severity      : {"medium"},
      created_at    : {1, 2, 3} ]

\* the values of threshold_km: 10 km, 50 km, and the distance between the
\* first two latitudes
Thresholds == {100000, 400320, 500000}

\* an incident list: incident k carries id k and source tweet k
WithIds(kinds) ==
    [ k \in 1 .. Len(kinds) |->
        [ id |-> k, incident_type |-> kinds[k].incident_type, lat |-> kinds[k].lat,
          lng |-> kinds[k].lng, severity |-> kinds[k].severity,
          created_at |-> kinds[k].created_at, source_tweets |-> <<k>> ] ]

Abs(x) == IF x < 0 THEN -x ELSE x

\* haversine_km, lines 883-891, in decimetres: on one meridian dlambda = 0
\* and the distance is R times the difference of latitude, 111.2 m for 0.001
\* degree
haversine_km(a_lat, a_lng, b_lat, b_lng) == Abs(b_lat - a_lat) * 1112

RECURSIVE Sum(_)
Sum(seq) == IF seq = << >> THEN 0 ELSE seq[1] + Sum(Tail(seq))

\* mutant of within: the boundary excluded
within_strict(cluster, inc, threshold) ==
    /\ cluster.incident_type = inc.incident_type
    /\ haversine_km(cluster.centroid_lat, cluster.centroid_lng, inc.lat, inc.lng) < threshold

\* lines 899-902: the cluster takes the incident
within(cluster, inc, threshold) ==
    /\ cluster.incident_type = inc.incident_type
    /\ haversine_km(cluster.centroid_lat, cluster.centroid_lng, inc.lat, inc.lng) <= threshold

\* mutant of first_fit: the nearest of the clusters that would take the incident
nearest_fit(cs, inc, threshold) ==
    LET fits == { c \in 1 .. Len(cs) : within(cs[c], inc, threshold) }
        d(c) == haversine_km(cs[c].centroid_lat, cs[c].centroid_lng, inc.lat, inc.lng)
    IN  IF fits = {} THEN 0
        ELSE CHOOSE c \in fits : \A e \in fits : d(c) < d(e) \/ (d(c) = d(e) /\ c <= e)

\* lines 898-909: the first cluster, in list order, that takes the incident; 0
\* when none does
first_fit(cs, inc, threshold) ==
    LET fits == { c \in 1 .. Len(cs) : within(cs[c], inc, threshold) }
    IN  IF fits = {} THEN 0 ELSE CHOOSE c \in fits : \A e \in fits : c <= e

\* mutant of add_member: the centroid moves half way to the new member
add_member_halfway(cluster, inc) ==
    [ incident_type |-> cluster.incident_type,
      members       |-> Append(cluster.members, inc),
      centroid_lat  |-> (cluster.centroid_lat + inc.lat) \div 2,
      centroid_lng  |-> (cluster.centroid_lng + inc.lng) \div 2 ]

\* lines 903-907: append the member and recompute the centroid as the mean
add_member(cluster, inc) ==
    LET members == Append(cluster.members, inc)
        lats    == [m \in 1 .. Len(members) |-> members[m].lat]
        lngs    == [m \in 1 .. Len(members) |-> members[m].lng]
    IN  [ incident_type |-> cluster.incident_type,
          members       |-> members,
          centroid_lat  |-> Sum(lats) \div Len(lats),
          centroid_lng  |-> Sum(lngs) \div Len(lngs) ]

\* lines 911-916
new_cluster(inc) ==
    [ incident_type |-> inc.incident_type, members |-> <<inc>>,
      centroid_lat |-> inc.lat, centroid_lng |-> inc.lng ]

\* severity_order.get(severity, 2), line 938-939
severity_order(severity) ==
    CASE severity = "low"      -> 1
      [] severity = "medium"   -> 2
      [] severity = "high"     -> 3
      [] severity = "critical" -> 3
      [] OTHER                 -> 2

\* rev_map.get(maxsev, 'medium'), lines 941-942
rev_map(maxsev) ==
    CASE maxsev = 1 -> "low"
      [] maxsev = 2 -> "medium"
      [] maxsev = 3 -> "high"
      [] OTHER      -> "medium"

RECURSIVE all_tweets(_)
all_tweets(members) ==
    IF members = << >> THEN << >>
    ELSE members[1].source_tweets \o all_tweets(Tail(members))

\* lines 919-943: the incident a cluster becomes
finish_cluster(cluster) ==
    LET members  == cluster.members
        sev_vals == { severity_order(members[m].severity) : m \in 1 .. Len(members) }
        maxsev   == CHOOSE v \in sev_vals : \A w \in sev_vals : w <= v
    IN  IF Len(members) = 1
        THEN members[1]
        ELSE [ members[1] EXCEPT !.source_tweets = all_tweets(members),
                                 !.lat = cluster.centroid_lat,
                                 !.lng = cluster.centroid_lng,
                                 !.severity = rev_map(maxsev) ]

\* one pass of the loop of lines 896-916
Place ==
    /\ mpc = "placing"
    /\ mcursor < Len(incidents_in)
    /\ LET inc == incidents_in[mcursor + 1]
           c   == first_fit(clusters, inc, threshold_km)
       IN  IF c # 0
           THEN /\ clusters' = [clusters EXCEPT ![c] = add_member(@, inc)]
                /\ placed_in' = c
           ELSE /\ clusters' = Append(clusters, new_cluster(inc))
                /\ placed_in' = Len(clusters) + 1
    /\ mcursor' = mcursor + 1
    /\ UNCHANGED <<bvars, xvars, rvars, gvars, incidents_in, threshold_km, merged, mpc, outputs>>

\* lines 918-945: build merged and return it
Build ==
    /\ mpc = "placing"
    /\ mcursor = Len(incidents_in)
    /\ merged' = [c \in 1 .. Len(clusters) |-> finish_cluster(clusters[c])]
    /\ mpc' = "done"
    /\ UNCHANGED <<bvars, xvars, rvars, gvars, incidents_in, threshold_km, clusters, mcursor,
                   placed_in, outputs>>

MInit ==
    /\ XIdle
    /\ RIdle
    /\ GIdle
    /\ BIdle
    /\ incidents_in \in { WithIds(kinds) :
                            kinds \in UNION { [1 .. n -> Kinds] : n \in 0 .. MaxMerge } }
    /\ threshold_km \in Thresholds
    /\ clusters = << >>
    /\ mcursor = 0
    /\ merged = << >>
    /\ mpc = "placing"
    /\ placed_in = 0
    /\ outputs = << >>

MNext ==
    \/ Place
    \/ Build

SpecMerge == MInit /\ [][MNext]_vars

\* the same function on inputs whose created_at differ
MInitStamped ==
    /\ XIdle
    /\ RIdle
    /\ GIdle
    /\ BIdle
    /\ incidents_in \in { WithIds(kinds) :
                            kinds \in UNION { [1 .. n -> StampedKinds] : n \in 0 .. MaxMerge } }
    /\ threshold_km \in Thresholds
    /\ clusters = << >>
    /\ mcursor = 0
    /\ merged = << >>
    /\ mpc = "placing"
    /\ placed_in = 0
    /\ outputs = << >>

SpecMergeStamped == MInitStamped /\ [][MNext]_vars

(***************************************************************************)
(* processing_bundle/run_thresholds.py                                      *)
(***************************************************************************)
\* mutant of thresholds: the runs are made in the order of falling thresholds
thresholds_falling == <<500000, 250000, 100000>>

\* thresholds of run_thresholds.py, line 7, in decimetres
thresholds == <<100000, 250000, 500000>>

\* The incidents of final_results.json: earthquakes on one meridian at five
\* latitudes between 0 and 42.7 km north of 36.000. The latitudes are
\* multiples of 0.012 degree and their sum a multiple of 5, so that every mean
\* of them is a whole number of 0.001 degree.
SeriesKinds ==
    [ incident_type : {"Earthquake"},
      lat           : {36000, 36084, 36300, 36372, 36384},
      lng           : {138000},
      severity      : {"medium"},
      created_at    : {1} ]

\* the input files: at most MaxSeries incidents, no two at the same place
Series ==
    { kinds \in UNION { [1 .. n -> SeriesKinds] : n \in 0 .. MaxSeries } :
        \A a, b \in 1 .. Len(kinds) : kinds[a].lat = kinds[b].lat => a = b }

\* lines 9-15: process_final_results has returned; the file it wrote and its
\* incidents_created are recorded, and the loop goes on to the next threshold
\* with the same input file
NextThreshold ==
    /\ mpc = "done"
    /\ Len(outputs) < Len(thresholds)
    /\ outputs' = Append(outputs, [t |-> threshold_km, out_file |-> merged,
                                   incidents_created |-> Len(merged)])
    /\ IF Len(outputs') < Len(thresholds)
       THEN /\ threshold_km' = thresholds[Len(outputs') + 1]
            /\ clusters' = << >>
            /\ mcursor' = 0
            /\ merged' = << >>
            /\ mpc' = "placing"
            /\ placed_in' = 0
       ELSE /\ mpc' = "summary"
            /\ UNCHANGED <<threshold_km, clusters, mcursor, merged, placed_in>>
    /\ UNCHANGED <<bvars, xvars, rvars, gvars, incidents_in>>

TInit ==
    /\ XIdle
    /\ RIdle
    /\ GIdle
    /\ BIdle
    /\ incidents_in \in { WithIds(kinds) : kinds \in Series }
    /\ threshold_km = thresholds[1]
    /\ clusters = << >>
    /\ mcursor = 0
    /\ merged = << >>
    /\ mpc = "placing"
    /\ placed_in = 0
    /\ outputs = << >>

TNext ==
    \/ Place
    \/ Build
    \/ NextThreshold

SpecThresholds == TInit /\ [][TNext]_vars

(***************************************************************************)
(* hf_pipeline.py: IntegratedDisasterPipeline.process_batch                  *)
(***************************************************************************)
\* the ids of the tweets of the input file; two lines may carry the same id
TweetIds == {1, 2}

BatchInputs == UNION { [1 .. n -> TweetIds] : n \in 0 .. MaxBatch }

\* process_tweet (lines 244-273): the nodes of the graph catch what the
\* classifier and the LLM raise, so it returns a result for every tweet
process_tweet(tweet_id, is_disaster, llm_ok) ==
    [ id             |-> tweet_id,
      is_disaster    |-> is_disaster,
      llm_extraction |-> IF is_disaster /\ llm_ok THEN "data" ELSE "None",
      error          |-> IF ~is_disaster THEN "not a disaster"
                         ELSE IF llm_ok THEN "None" ELSE "LLM extraction failed" ]

NoFuture == [state |-> "pending", result |-> process_tweet(0, FALSE, FALSE)]

\* mutant of next_future: the futures are taken as they complete
next_completed(n_collected, order) ==
    IF n_collected < Len(order) THEN order[n_collected + 1] ELSE 0

\* line 315: for i, future in enumerate(futures, 1) goes through the list of
\* futures in submission order
next_future(n_collected, order) == n_collected + 1

\* lines 310-313: executor.submit for the next tweet of the list
Submit ==
    /\ bpc = "submit"
    /\ Len(futures) < Len(b_tweets)
    /\ futures' = Append(futures, NoFuture)
    /\ UNCHANGED <<xvars, rvars, gvars, mvars, b_tweets, max_workers, taken, threads,
                   results, out_file, bpc, finish_order>>

\* lines 310-315: the list of futures is complete, the loop over it starts
SubmitDone ==
    /\ bpc = "submit"
    /\ Len(futures) = Len(b_tweets)
    /\ bpc' = "collect"
    /\ UNCHANGED <<xvars, rvars, gvars, mvars, b_tweets, max_workers, futures, taken,
                   threads, results, out_file, finish_order>>

\* a thread of the pool takes the oldest work item of the queue
WorkerTake(w) ==
    /\ bpc \in {"submit", "collect"}
    /\ threads[w] = 0
    /\ taken < Len(futures)
    /\ taken' = taken + 1
    /\ threads' = [threads EXCEPT ![w] = taken + 1]
    /\ futures' = [futures EXCEPT ![taken + 1].state = "running"]
    /\ UNCHANGED <<xvars, rvars, gvars, mvars, b_tweets, max_workers, results, out_file,
                   bpc, finish_order>>

\* process_tweet returns in a thread of the pool: its future completes
WorkerFinish(w) ==
    /\ bpc \in {"submit", "collect"}
    /\ threads[w] # 0
    /\ \E is_disaster \in BOOLEAN, llm_ok \in BOOLEAN :
          futures' = [futures EXCEPT ![threads[w]] =
                        [ state  |-> "finished",
                          result |-> process_tweet(b_tweets[threads[w]], is_disaster,
                                                   llm_ok) ]]
    /\ threads' = [threads EXCEPT ![w] = 0]
    /\ finish_order' = Append(finish_order, threads[w])
    /\ UNCHANGED <<xvars, rvars, gvars, mvars, b_tweets, max_workers, taken, results,
                   out_file, bpc>>

\* lines 315-317: future.result() of the next future returns once that
\* future has completed, and the result is appended
Collect ==
    /\ bpc = "collect"
    /\ Len(results) < Len(futures)
    /\ LET k == next_future(Len(results), finish_order) IN
       /\ k \in 1 .. Len(futures)
       /\ futures[k].state = "finished"
       /\ results' = Append(results, futures[k].result)
    /\ UNCHANGED <<xvars, rvars, gvars, mvars, b_tweets, max_workers, futures, taken,
                   threads, out_file, bpc, finish_order>>

\* lines 332-336: the with block ends and _save_results writes the file
SaveResults ==
    /\ bpc = "collect"
    /\ Len(results) = Len(futures)
    /\ out_file' = [exists |-> TRUE, lines |-> results]
    /\ bpc' = "saved"
    /\ UNCHANGED <<xvars, rvars, gvars, mvars, b_tweets, max_workers, futures, taken,
                   threads, results, finish_order>>

BInit ==
    /\ XIdle
    /\ RIdle
    /\ GIdle
    /\ MIdle
    /\ b_tweets \in BatchInputs
    /\ max_workers \in 2 .. MaxWorkers
    /\ futures = << >>
    /\ taken = 0
    /\ threads = [w \in 1 .. max_workers |-> 0]
    /\ results = << >>
    /\ out_file = [exists |-> FALSE, lines |-> << >>]
    /\ bpc = "submit"
    /\ finish_order = << >>

BNext ==
    \/ Submit
    \/ SubmitDone
    \/ \E w \in 1 .. max_workers : WorkerTake(w)
    \/ \E w \in 1 .. max_workers : WorkerFinish(w)
    \/ Collect
    \/ SaveResults

SpecBatch == BInit /\ [][BNext]_vars

(***************************************************************************)
(* Claims about the extractor (specification SpecExtract)                   *)
(***************************************************************************)
\* the step is one self.llm.invoke call
IsInvocation == invocations' = invocations + 1

EveryTokenExhausted == \A t \in TokenIdx : token_manager.exhausted[t]

ReturnedIds == [k \in 1 .. Len(all_processed) |-> all_processed[k].id]

\* C2: when process_all_tweets_in_batches returns, the returned list holds
\* every ML-disaster tweet exactly once and in input order (so the tweets that
\* followed the one on which the last credential ran out are present, marked
\* with the tokens-exhausted error): no tweet is dropped.
C2_NoReportDropped ==
    (xpc = "done") =>
        /\ ReturnedIds = disaster_tweets
        /\ \A k \in 1 .. Len(all_processed) :
              (EveryTokenExhausted /\ k > invocations)
                 => /\ all_processed[k].llm_extraction = "None"
                    /\ all_processed[k].llm_error = ExhaustedError

C4_ExhaustedReturnsAndStops ==
    [][ /\ (~EveryTokenExhausted /\ EveryTokenExhausted') =>
            /\ IsInvocation
            /\ all_processed' = Append(all_processed,
                                       Result(current_tweet, "None", ExhaustedError))
            /\ xpc' = "batch"
        /\ EveryTokenExhausted =>
            /\ invocations' = invocations
            /\ token_manager' = token_manager
            /\ xpc' # "invoke"
            /\ \A k \in (Len(all_processed) + 1) .. Len(all_processed') :
                  /\ all_processed'[k].llm_extraction = "None"
                  /\ all_processed'[k].llm_error = ExhaustedError
      ]_vars

\* C4 witness: every credential is exhausted, and after that point the run
\* returned further tweets marked with the tokens-exhausted error.
C4_Witness ==
    /\ EveryTokenExhausted
    /\ xpc = "done"
    /\ Len(all_processed) > invocations
    /\ invocations >= NumTokens

\* C5: an LLM call that fails with a non-quota error (a network timeout, a
\* connection error, a malformed reply) leaves current_token_idx, every
\* exhausted flag and total_rotations unchanged, is not retried, and the
\* tweet is returned with the error recorded on it.
C5_NonQuotaErrorLeavesManager ==
    [][ (IsInvocation /\ last_call'.outcome \in {"timeout", "connection", "malformed"}) =>
            /\ token_manager'.current_token_idx = token_manager.current_token_idx
            /\ token_manager'.exhausted = token_manager.exhausted
            /\ token_manager'.total_rotations = token_manager.total_rotations
            /\ xpc' # "invoke"
            /\ Len(all_processed') = Len(all_processed) + 1
            /\ all_processed'[Len(all_processed')].llm_error # "None"
      ]_vars

(***************************************************************************)
(* Claims about the incident pipeline (specification Spec)                  *)
(***************************************************************************)
ReportOf(tweet_id) == CHOOSE r \in Reports : r.id = tweet_id

\* the tweet ids named in source_tweets by the incidents of a list
SourceIds(incidents) ==
    UNION { { incidents[k].source_tweets[j] : j \in 1 .. Len(incidents[k].source_tweets) } :
            k \in 1 .. Len(incidents) }

StoredSourceIds ==
    UNION { { doc.source_tweets[j] : j \in 1 .. Len(doc.source_tweets) } :
            doc \in BagToSet(store) }

BothClassifiersAgree(r) ==
    /\ r.is_disaster
    /\ r.llm_extraction.present
    /\ r.llm_extraction.llm_classification

\* C1: a report is a source tweet of an incident (returned, written to
\* incidents.json or stored) only if its ML classification says disaster and
\* its LLM extraction is present and confirms it; the same holds for the
\* tweets process_final_results keeps for conversion.
C1_GateBothClassifiers ==
    /\ \A id \in SourceIds(result.incidents) \cup SourceIds(local_file.incidents)
                 \cup StoredSourceIds :
          BothClassifiersAgree(ReportOf(id))
    /\ \A k \in 1 .. Len(input) :
          (gate(input[k]) \/ process_final_results_filter(input[k]))
              => BothClassifiersAgree(input[k])
    /\ \A k \in 1 .. Len(process_final_results_filtered(input)) :
          BothClassifiersAgree(process_final_results_filtered(input)[k])

C1_Witness ==
    /\ rpc = "return"
    /\ result.incidents # << >>
    /\ result.filtered_tweets < result.total_tweets
    /\ \E k \in 1 .. Len(input) : ~BothClassifiersAgree(input[k])

C7_ReportInOneStoredIncident ==
    ~history.replace_used =>
        \A d1, d2 \in BagToSet(store) :
            /\ CopiesIn(d1, store) = 1
            /\ d1 # d2 => SourceIds(<<d1>>) \cap SourceIds(<<d2>>) = {}

\* C8: once the MongoDB block has been entered, incidents.json holds the
\* result of this run, and whatever the block does the function does not
\* raise.
C8_LocalBeforeRemote ==
    history.remote_started =>
        /\ rpc # "raised"
        /\ result.exists
        /\ local_file = [result EXCEPT !.mongodb = "absent"]

C8_Witness ==
    /\ rpc = "return"
    /\ history.remote_started
    /\ attempt_no = retry_count
    /\ result.mongodb = "not saved"
    /\ local_file.incidents = result.incidents

\* C9: process_pipeline_results never ends in an unhandled exception.
C9_NoUnhandledException == rpc # "raised"

OneDocumentPerId ==
    \A d1, d2 \in BagToSet(store) :
        /\ CopiesIn(d1, store) = 1
        /\ d1.id = d2.id => d1 = d2

\* insert_incidents has returned, and the call before it had the same list
SecondCall ==
    /\ rpc = "inserted"
    /\ stats.called
    /\ history.prev_insert.called
    /\ history.prev_insert.incidents = result.incidents

\* C10 as stated: the store never holds two documents with one id, and a
\* second call with the same list leaves the store as it found it and
\* reports inserted = 0.
C10_SecondCallChangesNothing ==
    /\ OneDocumentPerId
    /\ SecondCall => (store = history.store0 /\ stats.inserted = 0)

\* C10: the store never holds two documents with one id, and a second call
\* with the same list, made with replace_all false after a call in which no
\* write failed, leaves the store as it found it and reports inserted = 0
\* and updated = 0.
C10_SecondAppendChangesNothing ==
    /\ OneDocumentPerId
    /\ (SecondCall /\ history.prev_insert.clean /\ ~replace_mongodb)
          => (store = history.store0 /\ stats.inserted = 0 /\ stats.updated = 0)

C10_Witness ==
    /\ SecondCall
    /\ history.prev_insert.clean
    /\ ~replace_mongodb
    /\ stats.failed = 0
    /\ store # EmptyBag
    /\ Len(result.incidents) > 1

(***************************************************************************)
(* Claims about location resolution (specification SpecResolve)             *)
(***************************************************************************)
\* none of the coordinate patterns occurs in the string
NoPattern(str) ==
    str.paren = << >> /\ str.dir = << >> /\ str.compact = << >> /\ str.pair = << >>

\* no pattern of the string gives a pair within the coordinate ranges
NoInline(str) ==
    /\ str.paren # << >> => ~in_range(str.paren)
    /\ str.dir # << >> => ~in_range(directed(str.dir))
    /\ str.compact # << >> => ~in_range(directed(str.compact))
    /\ str.pair # << >> => ~in_range(str.pair)

Returned == gpc = "returned"

\* location_db as the current call loaded it
LoadedDb == IF gsave.active THEN gsave.prev ELSE gdb

\* the raw strings an entry is known by
Aliases(entry) == { entry.name_variants[v] : v \in 1 .. Len(entry.name_variants) }

\* C11: a tweet whose location string holds a parenthesised pair and whose
\* text holds no coordinate pattern is resolved to exactly that pair, as
\* tweet_text_coords with confidence 1.0, without a geocoder call.
C11_HintPairReturned ==
    (Returned /\ gtweet.location.paren # << >> /\ NoPattern(gtweet.text))
        => /\ gout.status = "incident"
           /\ <<gout.lat, gout.lng>> = gtweet.location.paren
           /\ gout.resolved_source = "tweet_text_coords"
           /\ gout.resolved_confidence = 10
           /\ ~gout.geocoded

\* C12: with no inline coordinates in text or location string, a location
\* string that equals (trimmed, case-folded) the canonical name or an alias
\* of a gazetteer entry is resolved to that entry's centroid, as location_db
\* with the entry's confidence, without a geocoder call; and the geocoder is
\* called only when no inline coordinates and no entry were found.
C12_GazetteerBeforeGeocoder ==
    Returned =>
        LET m == first_match(LoadedDb, strip(gtweet.location.raw)) IN
        /\ (NoInline(gtweet.text) /\ NoInline(gtweet.location) /\ m # 0)
              => /\ gout.status = "incident"
                 /\ <<gout.lat, gout.lng>> = LoadedDb[m].centroid
                 /\ gout.resolved_source = "location_db"
                 /\ gout.resolved_confidence = LoadedDb[m].confidence
                 /\ ~gout.geocoded
        /\ gout.geocoded
              => (NoInline(gtweet.text) /\ NoInline(gtweet.location) /\ m = 0)

\* C13: coordinates taken from the text or the location string are in range.
C13_InlineInRange ==
    (Returned /\ gout.original) => in_range(<<gout.lat, gout.lng>>)

\* C14: a tweet with no coordinate pattern is resolved without the geocoder
\* only through a gazetteer entry whose canonical name or alias equals the
\* trimmed, case-folded location string.
C14_NameResolutionIsExact ==
    (Returned /\ gout.status = "incident" /\ ~gout.geocoded
       /\ NoPattern(gtweet.text) /\ NoPattern(gtweet.location))
        => \E k \in 1 .. Len(LoadedDb) :
              /\ name_matches(strip(gtweet.location.raw), LoadedDb[k])
              /\ <<gout.lat, gout.lng>> = LoadedDb[k].centroid

\* C15: an alias learned from the geocoder in a call that returned stays in
\* location_db.json with its centroid, and a later call with that location
\* string makes no geocoder call.
C15_LearnedAliasKept ==
    /\ (Returned /\ gout.known) => ~gout.geocoded
    /\ gpc \in {"idle", "returned", "crashed"} =>
          \A a \in learned :
              \E k \in 1 .. Len(load_location_db(gfile).db) :
                  LET entry == load_location_db(gfile).db[k] IN
                  /\ a \in Aliases(entry)
                  /\ entry.centroid = <<nominatim(a).lat, nominatim(a).lng>>

\* C16: after a crash during save_location_db the next load_location_db
\* gives the dictionary the file held before the save or the one being saved.
C16_SaveIsAtomic ==
    (gpc = "crashed" /\ gsave.active)
        => load_location_db(gfile).db \in {gsave.prev, gsave.new}

\* C17: tweet_to_incident's location resolution does not raise: a call
\* returns with coordinates or with None.
C17_ResolutionNeverRaises ==
    /\ gpc # "raised"
    /\ Returned => gout.status \in {"incident", "None"}

C17_Witness ==
    /\ Returned
    /\ gout.status = "None"
    /\ gout.geocoded
    /\ gfile.exists
    /\ ~gfile.complete

(***************************************************************************)
(* Claims about merge_similar_incidents (specification SpecMerge)            *)
(***************************************************************************)
\* the clusters of the incident's type whose centroid is within the threshold
Fits(inc) ==
    { c \in 1 .. Len(clusters) :
        /\ clusters[c].incident_type = inc.incident_type
        /\ haversine_km(clusters[c].centroid_lat, clusters[c].centroid_lng,
                        inc.lat, inc.lng) <= threshold_km }

Distance(c, inc) ==
    haversine_km(clusters[c].centroid_lat, clusters[c].centroid_lng, inc.lat, inc.lng)

\* the step puts incident inc into cluster c, whose centroid becomes the mean
\* of its members, or into a new singleton cluster when c is past the end
PlacedInto(c, inc) ==
    /\ placed_in' = c
    /\ Len(clusters') = IF c > Len(clusters) THEN Len(clusters) + 1 ELSE Len(clusters)
    /\ \A e \in 1 .. Len(clusters) : e # c => clusters'[e] = clusters[e]
    /\ IF c > Len(clusters)
       THEN /\ clusters'[c].members = <<inc>>
            /\ clusters'[c].centroid_lat = inc.lat
       ELSE /\ clusters'[c].members = Append(clusters[c].members, inc)
            /\ clusters'[c].centroid_lat * Len(clusters'[c].members)
                 = Sum([m \in 1 .. Len(clusters'[c].members) |->
                           clusters'[c].members[m].lat])

\* C18 as stated: each incident joins the same-type cluster at minimum
\* distance when that distance is within the threshold, else a new cluster.
C18_JoinsNearest ==
    [][ mcursor' = mcursor + 1 =>
          LET inc == incidents_in[mcursor + 1] IN
          IF Fits(inc) = {}
          THEN PlacedInto(Len(clusters) + 1, inc)
          ELSE \E c \in Fits(inc) :
                  /\ \A e \in Fits(inc) : Distance(c, inc) <= Distance(e, inc)
                  /\ PlacedInto(c, inc) ]_vars

\* C18: each incident joins the first same-type cluster, in the order the
\* clusters were opened, whose centroid is within the threshold, and the
\* centroid becomes the mean of the members; else it opens a new cluster.
C18_JoinsFirstWithin ==
    [][ mcursor' = mcursor + 1 =>
          LET inc == incidents_in[mcursor + 1] IN
          IF Fits(inc) = {}
          THEN PlacedInto(Len(clusters) + 1, inc)
          ELSE \E c \in Fits(inc) :
                  /\ \A e \in Fits(inc) : c <= e
                  /\ PlacedInto(c, inc) ]_vars

\* the third incident joined the first cluster although the second is nearer
C18_Witness ==
    /\ mcursor = 3
    /\ placed_in = 1
    /\ Len(clusters) = 2
    /\ clusters[1].incident_type = clusters[2].incident_type
    /\ haversine_km(clusters[2].centroid_lat, clusters[2].centroid_lng,
                    incidents_in[3].lat, incidents_in[3].lng)
         < haversine_km(incidents_in[1].lat, incidents_in[1].lng,
                        incidents_in[3].lat, incidents_in[3].lng)

\* C19: two incidents become one, with both source tweets and the mean
\* position, exactly when they have the same type and are at most
\* threshold_km apart; otherwise they are returned as they came.
C19_TwoReports ==
    (mpc = "done" /\ Len(incidents_in) = 2) =>
        LET a == incidents_in[1]
            b == incidents_in[2]
        IN  IF a.incident_type = b.incident_type
               /\ haversine_km(a.lat, a.lng, b.lat, b.lng) <= threshold_km
            THEN /\ Len(merged) = 1
                 /\ merged[1].source_tweets = <<1, 2>>
                 /\ merged[1].incident_type = a.incident_type
                 /\ 2 * merged[1].lat = a.lat + b.lat
                 /\ 2 * merged[1].lng = a.lng + b.lng
            ELSE merged = incidents_in

\* two incidents exactly threshold_km apart, merged
C19_Witness ==
    /\ mpc = "done"
    /\ Len(incidents_in) = 2
    /\ Len(merged) = 1
    /\ haversine_km(incidents_in[1].lat, incidents_in[1].lng,
                    incidents_in[2].lat, incidents_in[2].lng) = threshold_km

\* C20: every returned incident carries the label of the highest severity
\* among the members of its cluster, high standing for high and critical.
C20_SeverityIsMaxLabel ==
    mpc = "done" =>
        \A c \in 1 .. Len(merged) :
            LET sevs == { clusters[c].members[m].severity :
                            m \in 1 .. Len(clusters[c].members) }
            IN  merged[c].severity =
                   IF sevs \cap {"high", "critical"} # {} THEN "high"
                   ELSE IF "medium" \in sevs THEN "medium"
                   ELSE "low"

(***************************************************************************)
(* Further claims about the extractor (specification SpecExtract)            *)
(***************************************************************************)
\* C25: a call of _extract_with_llm issues at most as many LLM invocations
\* as there are credentials, each with a different credential.
C25_EachCredentialOnce ==
    /\ Len(last_call.tried) <= NumTokens
    /\ \A a, b \in 1 .. Len(last_call.tried) :
          last_call.tried[a] = last_call.tried[b] => a = b

\* a call that went through every credential
C25_Witness ==
    /\ Len(last_call.tried) = NumTokens
    /\ last_call.attempt = NumTokens - 1
    /\ last_call.outcome = "quota"

(***************************************************************************)
(* Further claims about process_pipeline_results (specification Spec)        *)
(***************************************************************************)
\* a run of process_pipeline_results has ended, by return or by exception
RunEnded == rpc \in {"return", "raised"}

\* the ids of the tweets of the input file of this run
InputIds == { input[k].id : k \in 1 .. Len(input) }

\* the ids of the incidents this run produced
ProducedIds == { result.incidents[k].id : k \in 1 .. Len(result.incidents) }

\* C22: without replace_mongodb a run leaves every stored incident whose id
\* it does not produce as it was, and after the run incidents.json holds
\* only incidents made from the input of that run.
C22_AppendKeepsOthersFileIsLatest ==
    RunEnded =>
        /\ ~replace_mongodb =>
              \A doc \in BagToSet(history.store0) :
                  doc.id \notin ProducedIds
                      => CopiesIn(doc, store) = CopiesIn(doc, history.store0)
        /\ \A k \in 1 .. Len(local_file.incidents) :
              \A s \in 1 .. Len(local_file.incidents[k].source_tweets) :
                  local_file.incidents[k].source_tweets[s] \in InputIds

(***************************************************************************)
(* Claims about process_batch (specification SpecBatch)                      *)
(***************************************************************************)
\* C23: with more than one worker the results are collected and saved in
\* the input order of the tweets, one result per tweet, whatever the order
\* in which the worker threads complete.
C23_ResultsInInputOrder ==
    /\ Len(results) <= Len(b_tweets)
    /\ \A k \in 1 .. Len(results) :
          /\ results[k].id = b_tweets[k]
          /\ results[k] = futures[k].result
    /\ bpc = "saved" =>
          /\ out_file.exists
          /\ Len(out_file.lines) = Len(b_tweets)
          /\ \A k \in 1 .. Len(b_tweets) :
                /\ out_file.lines[k].id = b_tweets[k]
                /\ out_file.lines[k] = futures[k].result

\* the file is saved after the last tweet completed first
C23_Witness ==
    /\ bpc = "saved"
    /\ max_workers > 1
    /\ Len(b_tweets) = MaxBatch
    /\ finish_order[1] = MaxBatch
    /\ b_tweets[1] # b_tweets[MaxBatch]

(***************************************************************************)
(* Claims about the input file (specification Spec)                          *)
(***************************************************************************)
\* a tweet on which tweet_to_incident raises (a null field of the LLM)
HasNullField(tweet) ==
    /\ tweet.llm_extraction.present
    /\ \/ tweet.llm_extraction.disaster_type = "null"
       \/ tweet.llm_extraction.severity = "null"

ParseableLines == SelectSeq(input, LAMBDA line : line # BadLine)

\* C24: a line of the input that cannot be parsed is skipped and the other
\* lines are processed: the run returns a result that counts them.
C24_BadLineSkipped ==
    ( /\ RunEnded
      /\ \E k \in 1 .. Len(input) : input[k] = BadLine
      /\ \A k \in 1 .. Len(input) : ~HasNullField(input[k]) )
    => /\ rpc = "return"
       /\ result.exists
       /\ result.total_tweets = Len(ParseableLines)
       /\ local_file = [result EXCEPT !.mongodb = "absent"]

(***************************************************************************)
(* Claims about the counts of the result (specification Spec)                *)
(***************************************************************************)
\* the lines of the input both classifiers call a disaster
Passing == { k \in 1 .. Len(input) : BothClassifiersAgree(input[k]) }

\* the lines of the input whose location yields no coordinates
Unlocated ==
    { k \in Passing :
        extract_coordinates_from_location(
            IF input[k].llm_extraction.location = "" THEN "Location TBD"
            ELSE input[k].llm_extraction.location) = NoCoords }

\* the places (incident, position) at which a tweet id is a source tweet
Memberships(incidents, tweet_id) ==
    { <<a, j>> \in (1 .. Len(incidents)) \X (1 .. MaxInput) :
        /\ j <= Len(incidents[a].source_tweets)
        /\ incidents[a].source_tweets[j] = tweet_id }

\* C29: in a result every gate-passing report is a source tweet of exactly
\* one incident or, having no coordinates, of none and counted as skipped;
\* filtered_tweets is the number of source tweets plus skipped_no_coords and
\* incidents_created is the number of incidents.
C29_EveryReportAccounted ==
    result.exists =>
        /\ result.incidents_created = Len(result.incidents)
        /\ result.filtered_tweets = Cardinality(Passing)
        /\ result.skipped_no_coords = Cardinality(Unlocated)
        /\ result.filtered_tweets
              = Sum([a \in 1 .. Len(result.incidents) |->
                        Len(result.incidents[a].source_tweets)])
                + result.skipped_no_coords
        /\ \A k \in Passing :
              Cardinality(Memberships(result.incidents, input[k].id))
                  = IF k \in Unlocated THEN 0 ELSE 1

\* a result with one incident and one report skipped for want of coordinates
C29_Witness ==
    /\ result.exists
    /\ result.skipped_no_coords = 1
    /\ result.incidents_created = 1
    /\ result.filtered_tweets = 2

(***************************************************************************)
(* Claims about MongoDBHandler (specification Spec)                          *)
(***************************************************************************)
\* the step is the last attempt of connect, and it fails
LastAttemptFails ==
    /\ attempt_no' = attempt_no + 1
    /\ attempt_no' = retry_count
    /\ ~connected'

\* the run has ended after connect failed retry_count times
ConnectGaveUp == rpc = "return" /\ attempt_no = retry_count /\ ~stats.called

\* C26: connect makes at most retry_count attempts and none after a success,
\* sleeps 2^k seconds before attempt k >= 2, and after retry_count failures
\* returns False without raising, connected stays False and no operation on
\* the store follows.
C26_ConnectBoundedBackoff ==
    [][ /\ attempt_no' <= retry_count
        /\ attempt_no' = attempt_no + 1 => ~connected
        /\ Len(waited') = IF attempt_no' > 1 THEN attempt_no' - 1 ELSE 0
        /\ \A k \in 1 .. Len(waited') : waited'[k] = 2 ^ (k + 1)
        /\ \A k \in 1 .. Len(waited') - 1 : waited'[k] < waited'[k + 1]
        /\ LastAttemptFails =>
              /\ rpc' = "return"
              /\ result'.mongodb = "not saved"
        /\ ConnectGaveUp' =>
              /\ ~connected'
              /\ update_calls' = 0
              /\ store' = history'.store0 ]_vars

\* connect gave up after retry_count attempts and retry_count - 1 sleeps
C26_Witness ==
    /\ ConnectGaveUp
    /\ Len(waited) = retry_count - 1
    /\ result.mongodb = "not saved"

\* C27: an incident is counted as failed only after its upsert was tried
\* retry_count times, so a call of insert_incidents that counted f incidents
\* as failed issued at least retry_count update_one calls for each of them
\* and at least one for each of the others.
C27_FailedWriteWasRetried ==
    (rpc = "inserted" /\ ~stats.bulk_error) =>
        update_calls >= (Len(result.incidents) - stats.failed)
                            + stats.failed * retry_count

(***************************************************************************)
(* Further claims about merge_similar_incidents                              *)
(***************************************************************************)
Lats(members) == [m \in 1 .. Len(members) |-> members[m].lat]

Lngs(members) == [m \in 1 .. Len(members) |-> members[m].lng]

\* C28 (SpecMerge): after every step the centroid of every cluster is the
\* arithmetic mean of its members' coordinates, and a returned incident of
\* several members carries that mean as lat and lng.
C28_CentroidIsMean ==
    /\ \A c \in 1 .. Len(clusters) :
          /\ clusters[c].centroid_lat * Len(clusters[c].members)
                = Sum(Lats(clusters[c].members))
          /\ clusters[c].centroid_lng * Len(clusters[c].members)
                = Sum(Lngs(clusters[c].members))
    /\ mpc = "done" =>
          \A c \in 1 .. Len(clusters) :
              Len(clusters[c].members) > 1 =>
                  /\ merged[c].lat * Len(clusters[c].members)
                        = Sum(Lats(clusters[c].members))
                  /\ merged[c].lng * Len(clusters[c].members)
                        = Sum(Lngs(clusters[c].members))

\* a returned cluster of three members at three different latitudes
C28_Witness ==
    /\ mpc = "done"
    /\ Len(clusters) = 1
    /\ Len(clusters[1].members) = 3
    /\ Cardinality({ clusters[1].members[m].lat : m \in 1 .. 3 }) = 3
    /\ 3 * merged[1].lat = Sum(Lats(clusters[1].members))

\* C30 (SpecMergeStamped): the created_at of every returned incident is the
\* earliest created_at among the members of its cluster.
C30_CreatedAtIsEarliest ==
    mpc = "done" =>
        \A c \in 1 .. Len(merged) :
            \A m \in 1 .. Len(clusters[c].members) :
                merged[c].created_at <= clusters[c].members[m].created_at

(***************************************************************************)
(* Claims about the results of the extractor (specification SpecExtract)     *)
(***************************************************************************)
\* C31: every tweet the extractor returns carries an extraction or an error:
\* no returned tweet has llm_extraction = None together with llm_error = None.
C31_ExtractionOrError ==
    \A k \in 1 .. Len(all_processed) :
        \/ all_processed[k].llm_extraction # "None"
        \/ all_processed[k].llm_error # "None"

\* C32: with MAX_LLM_CALLS > 0 the number of self.llm.invoke calls issued in
\* a run, the failed ones included, never exceeds MAX_LLM_CALLS.
C32_InvocationsWithinCap ==
    MAX_LLM_CALLS > 0 => invocations <= MAX_LLM_CALLS

(***************************************************************************)
(* Further claims about the gazetteer (specification SpecResolve)            *)
(***************************************************************************)
\* the entries of a location_db.json that load_location_db can read
PersistedEntries(file) ==
    { load_location_db(file).db[k] : k \in 1 .. Len(load_location_db(file).db) }

\* C33: every entry of location_db.json has at least one alias and is the
\* entry the geocoding of one of its aliases builds; and the save that writes
\* an entry writes it with the location string of the call among its aliases.
C33_EntryHasProducingAlias ==
    [][ /\ \A entry \in PersistedEntries(gfile') :
              /\ Len(entry.name_variants) >= 1
              /\ \E a \in Aliases(entry) : entry = geocode_entry(a, nominatim(a))
        /\ (gfile' # gfile /\ gfile'.complete) =>
              \E entry \in PersistedEntries(gfile') :
                  /\ entry.id = gout.resolved_place_id
                  /\ gtweet.location.raw \in Aliases(entry)
      ]_vars

\* location_db.json holds two entries, the second written again for another
\* location string of the same place
C33_Witness ==
    /\ gfile.complete
    /\ Len(gfile.db) = 2
    /\ "NYC" \in learned
    /\ \E entry \in PersistedEntries(gfile) : Aliases(entry) = {"New York City"}

(***************************************************************************)
(* Claims about the credentials of the extractor (specification SpecExtract) *)
(***************************************************************************)
ExhaustedTokens(tm) == { t \in TokenIdx : tm.exhausted[t] }

\* C34: an exhausted credential stays exhausted; every mark_token_exhausted
\* (one more rotation) is applied to a current credential that was not yet
\* exhausted and marks exactly that one; total_rotations equals the number of
\* exhausted credentials and never exceeds the number of credentials.
C34_RotationsCountExhausted ==
    [][ /\ \A t \in TokenIdx : token_manager.exhausted[t] => token_manager'.exhausted[t]
        /\ token_manager'.total_rotations # token_manager.total_rotations =>
              /\ token_manager'.total_rotations = token_manager.total_rotations + 1
              /\ ~token_manager.exhausted[token_manager.current_token_idx]
              /\ ExhaustedTokens(token_manager') =
                    ExhaustedTokens(token_manager) \cup {token_manager.current_token_idx}
        /\ token_manager'.total_rotations = Cardinality(ExhaustedTokens(token_manager'))
        /\ token_manager'.total_rotations <= NumTokens
      ]_vars

\* every credential is exhausted, the last one marked by a quota error that
\* a client left on credential 0 by a failed re-initialisation received
C34_Witness ==
    /\ EveryTokenExhausted
    /\ token_manager.total_rotations = NumTokens
    /\ last_call.token = 0
    /\ last_call.attempt = 0
    /\ last_call.outcome = "quota"

\* C35: every self.llm.invoke is made with the client bound to the credential
\* at current_token_idx, which is not exhausted at that time, and a successful
\* call adds 1 to the count of the credential that served it and to no other.
C35_InvokesCurrentCredential ==
    [][ IsInvocation =>
            /\ llm = token_manager.current_token_idx
            /\ ~token_manager.exhausted[llm]
            /\ last_call'.outcome \in {"reply", "malformed"} =>
                  token_manager'.calls =
                      [token_manager.calls EXCEPT ![llm] = token_manager.calls[llm] + 1]
      ]_vars

(***************************************************************************)
(* Claims about run_thresholds.py (specification SpecThresholds)             *)
(***************************************************************************)
\* the incident of a written file that holds input incident k
ClusterOf(file, k) ==
    CHOOSE c \in 1 .. Len(file) :
        \E m \in 1 .. Len(file[c].source_tweets) : file[c].source_tweets[m] = k

\* the number of clusters the run that wrote the file had opened when it had
\* placed the first k incidents
Opened(file, k) == Cardinality({ ClusterOf(file, j) : j \in 1 .. k })

\* the input incidents that two written files hold in different clusters
Differ(file_a, file_b) ==
    { k \in 1 .. Len(incidents_in) : ClusterOf(file_a, k) # ClusterOf(file_b, k) }

\* C36 as stated: the incident counts of the runs, in the order of rising
\* thresholds, are non-increasing.
C36_CountsNonIncreasing ==
    \A a, b \in 1 .. Len(outputs) :
        a < b => outputs[a].incidents_created >= outputs[b].incidents_created

\* C36: two runs on the same input, the second with the higher threshold,
\* place the incidents alike up to the first incident that the second run puts
\* into an existing cluster whose centroid is farther from it than the first
\* run's threshold; up to and including that incident the second run has
\* opened no more clusters than the first. On an input of at most two
\* incidents the counts are non-increasing.
C36_FirstDivergenceJoins ==
    \A a, b \in 1 .. Len(outputs) :
        a < b =>
            LET file_a == outputs[a].out_file
                file_b == outputs[b].out_file
                differ == Differ(file_a, file_b)
            IN  /\ differ = {} => file_a = file_b
                /\ differ # {} =>
                      LET j      == CHOOSE k \in differ : \A e \in differ : k <= e
                          before == { k \in 1 .. (j - 1) :
                                        ClusterOf(file_b, k) = ClusterOf(file_b, j) }
                          lats   == [k \in 1 .. (j - 1) |->
                                        IF k \in before THEN incidents_in[k].lat ELSE 0]
                      IN  /\ before # {}
                          /\ Abs(Sum(lats) - Cardinality(before) * incidents_in[j].lat) * 1112
                                > outputs[a].t * Cardinality(before)
                          /\ Opened(file_b, j) <= Opened(file_a, j)
                /\ Len(incidents_in) <= 2 =>
                      outputs[a].incidents_created >= outputs[b].incidents_created

\* the three runs are done and the 25 km run returned more incidents than the
\* 10 km run
C36_Witness ==
    /\ mpc = "summary"
    /\ Len(outputs) = 3
    /\ outputs[1].incidents_created < outputs[2].incidents_created
    /\ outputs[3].incidents_created = 1

(***************************************************************************)
(* Claims about the incidents returned (specification SpecMerge)             *)
(***************************************************************************)
\* the members of a cluster that were placed before input incident k
PlacedBefore(cluster, k) == SelectSeq(cluster.members, LAMBDA m : m.id < k)

\* C37 as stated: no two returned incidents of one type have centroids within
\* threshold_km of each other.
C37_NoTwoWithinThreshold ==
    mpc = "done" =>
        \A c, e \in 1 .. Len(merged) :
            (c # e /\ merged[c].incident_type = merged[e].incident_type)
                => haversine_km(merged[c].lat, merged[c].lng,
                                merged[e].lat, merged[e].lng) > threshold_km

\* C37: the first member of every cluster was farther than threshold_km from
\* the centroid that each same-type cluster opened before it had when that
\* member was placed (the mean of the members it had then); so two same-type
\* incidents of one report each are more than threshold_km apart.
C37_OpenedFartherThanThreshold ==
    \A c, e \in 1 .. Len(clusters) :
        (c < e /\ clusters[c].incident_type = clusters[e].incident_type) =>
            LET first == clusters[e].members[1]
                then  == PlacedBefore(clusters[c], first.id)
            IN  /\ then # << >>
                /\ haversine_km(Sum(Lats(then)) \div Len(then), Sum(Lngs(then)) \div Len(then),
                                first.lat, first.lng) > threshold_km
                /\ Len(clusters[c].members) = 1 =>
                      haversine_km(clusters[c].centroid_lat, clusters[c].centroid_lng,
                                   first.lat, first.lng) > threshold_km

\* two incidents of one type are returned whose centroids are within
\* threshold_km of each other: the first cluster's centroid moved towards the
\* second after the second was opened
C37_Witness ==
    /\ mpc = "done"
    /\ Len(merged) = 2
    /\ merged[1].incident_type = merged[2].incident_type
    /\ merged[1].source_tweets = <<1, 3>>
    /\ haversine_km(merged[1].lat, merged[1].lng, merged[2].lat, merged[2].lng)
          <= threshold_km

====
